---- MODULE Spec2Model ----
(***************************************************************************)
(* A model of the streaming data plane of the screen-mirroring client:     *)
(*   - the wire codec            (src/src/network/protocol.rs)             *)
(*   - the Reed-Solomon FEC coder (src/src/network/fec.rs)                  *)
(*   - the datagram transport    (src/src/network/quic.rs)                 *)
(*   - the A/V sync engine       (src/src/sync/mod.rs)                     *)
(*   - the stream transport      (src/src/network/tcp.rs)                  *)
(*   - the playout driver around the sync engine (spec.md, sync step)      *)
(*   - the bitrate controller    (src/src/control/bitrate.rs)              *)
(*   - the session's receive loop and the video decoder's decode           *)
(*     (src/src/main.rs, src/src/video/decoder.rs)                         *)
(*   - the audio jitter buffer   (src/src/audio/player.rs)                 *)
(*   - the connection negotiator (src/src/network/negotiation.rs)          *)
(* Each subsystem has its own specifications (SpecWire; SpecFec,           *)
(* SpecEviction, SpecEncoder, SpecFlush, SpecInterleave; SpecTransport,    *)
(* SpecReorder, SpecBackpressure; SpecSync, SpecTrim; SpecPlayout;         *)
(* SpecBitrate; SpecSession; SpecJitter; SpecNegotiation) over the         *)
(* shared variables; a specification leaves the other subsystems'          *)
(* variables at their initial values.                                      *)
(***************************************************************************)
EXTENDS Integers, Sequences, FiniteSets, TLC

(***************************************************************************)
(* Bounds of the model (not program constants).                            *)
(***************************************************************************)
\* longest payload, in bytes, of a packet drawn as an input
MaxPayloadLen == 2
\* FecEncoder::new / FecDecoder::new(data_shards, parity_shards)
DataShards == 2
ParityShards == 2
\* packets handed to the FEC encoder
MaxEncoded == 2
\* the encoder alone is checked over MaxEncodeCalls calls
MaxEncodeCalls == 6
\* seconds of wall clock the FEC decoder is followed for, and the step of
\* the clock
MaxTime == 10
\* eviction is checked with a clock read every second up to MaxEvictionTime,
\* and insertions into EvictionBlocks blocks
MaxEvictionTime == 12
EvictionBlocks == 2
\* interleaved delivery is checked with the shards of InterleaveBlocks
\* blocks and up to MaxInterleaved insertions
InterleaveBlocks == 2
MaxInterleaved == 4
TICK_SECS == 5
\* datagrams a QuicConnection accounts for
MaxDatagrams == 5
\* datagrams of a reordered stream and the largest seq among them
MaxReordered == 4
MaxReorderSeq == 4
\* frames the stream readers read
MaxFrames == 3
\* largest capacities a SyncEngine is built with, calls made on one engine
MaxVideoBuffer == 2
MaxAudioBuffer == 2
MaxSyncCalls == 5
\* iterations of the trimming loop of one add call that are followed, and
\* add calls made on one engine when followed iteration by iteration
MaxTrimSteps == 3
MaxTrimCalls == 3
MaxPushes == 4
\* the controller's clock stops here, in ms
MaxBitrateTime == 2200
\* most frames a socket delivers in a burst, beyond the channel's capacity
MaxBurst == 102
\* JitterBuffer::new(max_size_ms, sample_rate, channels) of the buffer under
\* test, the longest chunk pushed, the pushes made and the largest pull
JitterMs == 2
JitterSampleRate == 1000
JitterChannels == 2
MaxChunk == 5
MaxJitterPushes == 3
MaxPop == 3

(***************************************************************************)
(* Program constants.                                                      *)
(***************************************************************************)
\* PacketType discriminants (#[repr(u8)])
Video == 1
Audio == 2
Control == 3
Fec == 4
Handshake == 5
\* Packet::HEADER_SIZE: type(1) + pts(8) + seq(4) + len(4)
HEADER_SIZE == 17
\* FecPacket::HEADER_SIZE: block_id(4) + index(1) + data_count(1) + parity_count(1)
FEC_HEADER_SIZE == 7
\* FecDecoder::cleanup: at most one run per 5 s, blocks live for 10 s
CLEANUP_INTERVAL_SECS == 5
BLOCK_TTL_SECS == 10
\* the FecDecoder of quic.rs: cleanup after more than 5 s, blocks live for 10 s
QUIC_CLEANUP_INTERVAL_SECS == 5
QUIC_BLOCK_TTL_SECS == 10
\* the drift threshold of the engine under test: SyncEngine::new(50, 16, 64)
SYNC_THRESHOLD_MS == 50
\* BitrateController::new: adjustment_interval_ms, increase_step and
\* rtt_threshold_ms
ADJUSTMENT_INTERVAL_MS == 1000
INCREASE_STEP == 1
RTT_THRESHOLD_MS == 200
\* TcpConnection: capacity of the packet channel, largest frame accepted
CHANNEL_CAPACITY == 100
MAX_FRAME_LEN == 20 * 1024 * 1024

PacketTypes == {Video, Audio, Control, Fec, Handshake}

(***************************************************************************)
(* Input samples.  A byte is an integer 0..255; Bytes/Vec<u8> is a         *)
(* sequence of bytes.                                                      *)
(***************************************************************************)
Byte == 0..255
ByteSample == {0, 1, 255}
PtsSample == {-1, 0, 1000, 100000}
SeqSample == {0, 1, 258}

RECURSIVE SeqsUpTo(_, _)
SeqsUpTo(S, n) ==
    IF n = 0 THEN {<<>>}
    ELSE LET shorter == SeqsUpTo(S, n - 1)
         IN  shorter \cup {Append(s, b) : s \in {t \in shorter : Len(t) = n - 1}, b \in S}

PayloadSample == SeqsUpTo(ByteSample, MaxPayloadLen)

VARIABLES
    \* wire codec round trip
    w_pkt,      \* the Packet handed to to_bytes
    w_buf,      \* the byte buffer between to_bytes and from_bytes
    w_res,      \* the Result of from_bytes
    w_pc,       \* "start" | "serialized" | "parsed"
    \* FEC coder
    f_enc,      \* FecEncoder: current_block_id, block_buffer
    f_sent,     \* the data packets handed to encode, in order
    f_parity,   \* the FecPackets encode has returned, in order
    f_blocks,   \* FecDecoder.blocks: block_id -> FecBlock
    f_last_cleanup, \* FecDecoder.last_cleanup
    f_now,      \* Instant::now(), in seconds
    f_panicked, \* the decoder's thread has panicked
    f_ret,      \* the packets the last insertion returned (<<>>: None)
    f_last,     \* the last decoder call, or flush, and what it found
    f_hist,     \* per block id: what has been delivered and done so far
    \* the transport in use
    n_conn,     \* "none" | "Quic" | "Tcp": the variant of Connection;
                \* "Failed": connect returned an error
    \* datagram transport (QuicConnection)
    q_last_seq, \* QuicConnection.last_seq (u32)
    q_stats,    \* QuicConnection.stats: the fields recv maintains
    q_blocks,   \* fec_decoder.blocks of quic.rs: block_id -> FecBlock
    q_last_cleanup, \* fec_decoder.last_cleanup
    q_now,      \* Instant::now(), in seconds
    q_closed,   \* close() has been called
    q_panicked, \* the task running recv has panicked
    q_ret,      \* what the last recv() returned, Pending while it awaits
    q_last,     \* the last datagram recv took and what it found
    q_hist,     \* what the datagrams received so far amount to
    \* stream transport (TcpConnection)
    t_chan,     \* the mpsc channel of Result<Packet>
    t_task,     \* per kind: the reader task, "running" | "sending" (blocked
                \* in send) | "done" | "none"
    t_pending,  \* per kind: what a task blocked in send has read
    t_rx_closed, \* packet_rx.close() has been called
    t_stats,    \* TcpConnection.stats: the fields recv maintains
    t_reads,    \* frames read from the sockets so far
    t_ret,      \* what the last recv() returned
    t_hist,     \* what connect met, the frames each socket delivered and the
                \* packets recv() has returned
    \* A/V sync engine (SyncEngine)
    s_cfg,      \* sync_threshold_ms, max_video_buffer, max_audio_buffer
    s_video,    \* video_buffer: the pts of the buffered frames, oldest first
    s_audio,    \* audio_buffer: the pts of the buffered chunks, oldest first
    s_stats,    \* SyncStats: the integer fields
    s_panicked, \* the thread calling the engine has panicked
    s_ret,      \* the SyncAction the last sync() returned
    s_last,     \* the last call and the state it found
    s_hist,     \* the calls made so far
    \* playout driver around the sync engine
    d_pc,       \* "idle" | "push" | "sync" | "consume" | "done"
    d_hist,     \* what the driver has seen since it started
    \* bitrate controller (BitrateController)
    b_cfg,      \* min_bitrate, max_bitrate
    b_current,  \* current_bitrate
    b_last_adjustment, \* last_adjustment, in ms
    b_now,      \* Instant::now(), in ms
    b_ret,      \* what the last update or set_bitrate returned
    b_last,     \* the last call and the state it found
    b_hist,     \* when the controller was built or last adjusted, and when
                \* update last returned a message
    \* the session: run_with_connection and the window's event loop
    m_running,  \* the AtomicBool "running"
    m_pc,       \* the receive loop: "idle" | "check" | "recv" | "exited"
    m_ui,       \* the event loop: "open" | "gone" (frame_rx dropped)
    m_dec,      \* HardwareVideoDecoder.packet_buffer
    m_hist,     \* what the loop and the decoder have done so far
    \* audio jitter buffer (JitterBuffer)
    j_buf,      \* buffer (chunks of samples, oldest first),
                \* current_size_samples, max_size_samples
    j_pushed,   \* samples pushed so far: [calls, samples]
    j_last,     \* the last call, the buffer it found and what it returned
    \* connection negotiator (ConnectionNegotiator)
    g_neg,      \* the negotiator's fields, where connect stands, the
                \* attempts it has made and what it returned
    \* FEC decoder fed the shards of several blocks
    i_log       \* the insertions made so far, in order

wireVars == <<w_pkt, w_buf, w_res, w_pc>>
fecVars == <<f_enc, f_sent, f_parity, f_blocks, f_last_cleanup, f_now,
             f_panicked, f_ret, f_last, f_hist>>
quicVars == <<n_conn, q_last_seq, q_stats, q_blocks, q_last_cleanup, q_now, q_closed,
              q_panicked, q_ret, q_last, q_hist>>
tcpVars == <<t_chan, t_task, t_pending, t_rx_closed, t_stats, t_reads, t_ret, t_hist>>
syncVars == <<s_cfg, s_video, s_audio, s_stats, s_panicked, s_ret, s_last,
              s_hist>>
playVars == <<d_pc, d_hist>>
bitrateVars == <<b_cfg, b_current, b_last_adjustment, b_now, b_ret, b_last, b_hist>>
sessVars == <<m_running, m_pc, m_ui, m_dec, m_hist>>
jitVars == <<j_buf, j_pushed, j_last>>
negVars == <<g_neg>>
logVars == <<i_log>>
vars == <<wireVars, fecVars, quicVars, tcpVars, syncVars, playVars, bitrateVars, sessVars,
    jitVars, negVars, logVars>>
notWire == <<fecVars, quicVars, tcpVars, syncVars, playVars, bitrateVars, sessVars,
    jitVars, negVars, logVars>>
notFec == <<wireVars, quicVars, tcpVars, syncVars, playVars, bitrateVars, sessVars,
    jitVars, negVars, logVars>>
notQuic == <<wireVars, fecVars, tcpVars, syncVars, playVars, bitrateVars, sessVars,
    jitVars, negVars, logVars>>
notTcp == <<wireVars, fecVars, quicVars, syncVars, playVars, bitrateVars, sessVars,
    jitVars, negVars, logVars>>
notSync == <<wireVars, fecVars, quicVars, tcpVars, playVars, bitrateVars, sessVars,
    jitVars, negVars, logVars>>
notPlayout == <<wireVars, fecVars, quicVars, tcpVars, bitrateVars, sessVars,
    jitVars, negVars, logVars>>
notBitrate == <<wireVars, fecVars, quicVars, tcpVars, syncVars, playVars, sessVars,
    jitVars, negVars, logVars>>

(***************************************************************************)
(* Wire codec: Packet::to_bytes / Packet::from_bytes.                      *)
(***************************************************************************)
\* Packet::new
Packet(packet_type, pts, seq, data) ==
    [packet_type |-> packet_type, pts |-> pts, seq |-> seq, data |-> data]

\* iN::to_le_bytes / uN::to_le_bytes: the n low bytes of v, least significant
\* first (two's complement for a negative v: \div rounds down, % is >= 0)
RECURSIVE to_le_bytes(_, _)
to_le_bytes(v, n) ==
    IF n = 0 THEN <<>> ELSE <<v % 256>> \o to_le_bytes(v \div 256, n - 1)

\* Buf::get_u32_le on the bytes bs
RECURSIVE get_uint_le(_)
get_uint_le(bs) ==
    IF bs = <<>> THEN 0 ELSE Head(bs) + 256 * get_uint_le(Tail(bs))

\* Buf::get_i64_le on the bytes bs: the top byte carries the sign
RECURSIVE get_int_le(_)
get_int_le(bs) ==
    IF Len(bs) = 1
    THEN (IF bs[1] >= 128 THEN bs[1] - 256 ELSE bs[1])
    ELSE Head(bs) + 256 * get_int_le(Tail(bs))

\* PacketType::try_from(u8)
PacketType_try_from(value) ==
    IF value \in PacketTypes THEN [ok |-> TRUE, value |-> value]
    ELSE [ok |-> FALSE, value |-> 0]

\* to_bytes with seq written most significant byte first (put_u32)
Packet_to_bytes_big_endian(p) ==
    LET seq == to_le_bytes(p.seq, 4)
    IN  <<p.packet_type>> \o to_le_bytes(p.pts, 8)
            \o <<seq[4], seq[3], seq[2], seq[1]>>
            \o to_le_bytes(Len(p.data), 4) \o p.data

\* Packet::to_bytes
Packet_to_bytes(p) ==
    <<p.packet_type>> \o to_le_bytes(p.pts, 8) \o to_le_bytes(p.seq, 4)
        \o to_le_bytes(Len(p.data), 4) \o p.data

Err(msg) == [ok |-> FALSE, err |-> msg]
Ok(p) == [ok |-> TRUE, packet |-> p]

\* Packet::from_bytes, seq left as the four bytes get_u32_le reads (least
\* significant first), for the callers that need the whole range of a u32
Packet_from_bytes_wide(buf) ==
    IF Len(buf) < HEADER_SIZE THEN Err("Packet too short")
    ELSE LET ty  == PacketType_try_from(buf[1])
             pts == get_int_le(SubSeq(buf, 2, 9))
             seq == SubSeq(buf, 10, 13)
             len == get_uint_le(SubSeq(buf, 14, 17))
         IN  IF ~ty.ok THEN Err("Invalid packet type")
             ELSE IF Len(buf) - HEADER_SIZE < len THEN Err("Incomplete packet")
             ELSE Ok(Packet(ty.value, pts, seq,
                            SubSeq(buf, HEADER_SIZE + 1, HEADER_SIZE + len)))

\* Packet::from_bytes
Packet_from_bytes(buf) ==
    LET parsed == Packet_from_bytes_wide(buf)
    IN  IF parsed.ok
        THEN Ok([parsed.packet EXCEPT !.seq = get_uint_le(parsed.packet.seq)])
        ELSE parsed

\* FecPacket::new
FecPacket(block_id, index, data_count, parity_count, data) ==
    [block_id |-> block_id, index |-> index, data_count |-> data_count,
     parity_count |-> parity_count, data |-> data]

\* FecPacket::to_bytes
FecPacket_to_bytes(fp) ==
    to_le_bytes(fp.block_id, 4) \o <<fp.index, fp.data_count, fp.parity_count>>
        \o fp.data

\* FecPacket::from_bytes
FecPacket_from_bytes(buf) ==
    IF Len(buf) < FEC_HEADER_SIZE THEN Err("FEC packet too short")
    ELSE Ok(FecPacket(get_uint_le(SubSeq(buf, 1, 4)), buf[5], buf[6], buf[7],
                      SubSeq(buf, FEC_HEADER_SIZE + 1, Len(buf))))

(***************************************************************************)
(* u32 and u64 in their whole range: a number is the sequence of its bytes *)
(* (4 or 8 of them), least significant first.                              *)
(***************************************************************************)
\* a + b + c: the sum modulo 256^Len(a) and the carry out of the top byte
RECURSIVE u_add_carry(_, _, _)
u_add_carry(a, b, c) ==
    IF a = <<>> THEN [v |-> <<>>, carry |-> c]
    ELSE LET sum  == Head(a) + Head(b) + c
             rest == u_add_carry(Tail(a), Tail(b), sum \div 256)
         IN  [v |-> <<sum % 256>> \o rest.v, carry |-> rest.carry]

u_add(a, b) == u_add_carry(a, b, 0)

\* a - b - c: the difference modulo 256^Len(a) and the borrow out of the top
RECURSIVE u_sub_borrow(_, _, _)
u_sub_borrow(a, b, c) ==
    IF a = <<>> THEN [v |-> <<>>, borrow |-> c]
    ELSE LET diff == Head(a) - Head(b) - c
             rest == u_sub_borrow(Tail(a), Tail(b), IF diff < 0 THEN 1 ELSE 0)
         IN  [v |-> <<diff % 256>> \o rest.v, borrow |-> rest.borrow]

u_sub(a, b) == u_sub_borrow(a, b, 0)

\* a > b
RECURSIVE u_gt(_, _)
u_gt(a, b) ==
    IF a = <<>> THEN FALSE
    ELSE LET n == Len(a)
         IN  IF a[n] # b[n] THEN a[n] > b[n]
             ELSE u_gt(SubSeq(a, 1, n - 1), SubSeq(b, 1, n - 1))

\* i64 (and wider signed integers) in two's complement: the top byte
\* carries the sign
is_negative(a) == a[Len(a)] >= 128

\* the same number with one more byte
sign_extend(a) == Append(a, IF is_negative(a) THEN 255 ELSE 0)

\* -a (wrapping: the least number is its own negation)
i_neg(a) == u_sub(to_le_bytes(0, Len(a)), a).v

\* a - b: the wrapped difference, and whether it left the range
i_sub(a, b) ==
    LET diff == u_sub(a, b).v
    IN  [v |-> diff,
         overflow |-> /\ is_negative(a) # is_negative(b)
                      /\ is_negative(diff) # is_negative(a)]

\* a > b for signed a, b
i_gt(a, b) ==
    IF is_negative(a) # is_negative(b) THEN is_negative(b) ELSE u_gt(a, b)

\* the quotient of the unsigned a by d (0 < d < 2^23), from the top byte
\* down, rem being the remainder carried into the top byte
RECURSIVE u_div(_, _, _)
u_div(a, d, rem) ==
    IF a = <<>> THEN <<>>
    ELSE LET n   == Len(a)
             cur == rem * 256 + a[n]
         IN  Append(u_div(SubSeq(a, 1, n - 1), d, cur % d), cur \div d)

\* a / d for a signed a: the quotient rounded toward zero
i_div(a, d) ==
    IF is_negative(a) THEN i_neg(u_div(i_neg(a), d, 0)) ELSE u_div(a, d, 0)

\* i64::abs (wrapping)
i_abs(a) == IF is_negative(a) THEN i_neg(a) ELSE a

U32(n) == to_le_bytes(n, 4)
U64(n) == to_le_bytes(n, 8)
I64(n) == to_le_bytes(n, 8)
I64_MAX == <<255, 255, 255, 255, 255, 255, 255, 127>>
\* `x as u64` for a u32 x
as_u64(a) == a \o <<0, 0, 0, 0>>
U32_MAX == <<255, 255, 255, 255>>

(***************************************************************************)
(* Reed-Solomon erasure code over GF(2^8) (crate reed_solomon_erasure,     *)
(* galois_8): field polynomial 0x11D, encoding matrix = Vandermonde matrix *)
(* times the inverse of its top square, so that the first k rows are the   *)
(* identity (the data shards are sent as they are).                        *)
(***************************************************************************)
\* addition in GF(2^8): bitwise exclusive or
RECURSIVE gf_add(_, _)
gf_add(a, b) ==
    IF a = 0 THEN b
    ELSE IF b = 0 THEN a
    ELSE (((a % 2) + (b % 2)) % 2) + 2 * gf_add(a \div 2, b \div 2)

\* galois_8's EXP_TABLE: the powers 2^0 .. 2^254 of the generator 2, reduced
\* by x^8 + x^4 + x^3 + x^2 + 1 (0x11D); EXP_TABLE[i] is element i + 1
EXP_TABLE_SEQ ==
    <<  1,   2,   4,   8,  16,  32,  64, 128,  29,  58, 116, 232, 205, 135,  19,  38,
       76, 152,  45,  90, 180, 117, 234, 201, 143,   3,   6,  12,  24,  48,  96, 192,
      157,  39,  78, 156,  37,  74, 148,  53, 106, 212, 181, 119, 238, 193, 159,  35,
       70, 140,   5,  10,  20,  40,  80, 160,  93, 186, 105, 210, 185, 111, 222, 161,
       95, 190,  97, 194, 153,  47,  94, 188, 101, 202, 137,  15,  30,  60, 120, 240,
      253, 231, 211, 187, 107, 214, 177, 127, 254, 225, 223, 163,  91, 182, 113, 226,
      217, 175,  67, 134,  17,  34,  68, 136,  13,  26,  52, 104, 208, 189, 103, 206,
      129,  31,  62, 124, 248, 237, 199, 147,  59, 118, 236, 197, 151,  51, 102, 204,
      133,  23,  46,  92, 184, 109, 218, 169,  79, 158,  33,  66, 132,  21,  42,  84,
      168,  77, 154,  41,  82, 164,  85, 170,  73, 146,  57, 114, 228, 213, 183, 115,
      230, 209, 191,  99, 198, 145,  63, 126, 252, 229, 215, 179, 123, 246, 241, 255,
      227, 219, 171,  75, 150,  49,  98, 196, 149,  55, 110, 220, 165,  87, 174,  65,
      130,  25,  50, 100, 200, 141,   7,  14,  28,  56, 112, 224, 221, 167,  83, 166,
       81, 162,  89, 178, 121, 242, 249, 239, 195, 155,  43,  86, 172,  69, 138,   9,
       18,  36,  72, 144,  61, 122, 244, 245, 247, 243, 251, 235, 203, 139,  11,  22,
       44,  88, 176, 125, 250, 233, 207, 131,  27,  54, 108, 216, 173,  71, 142>>
EXP_TABLE == [i \in 0..254 |-> EXP_TABLE_SEQ[i + 1]]

\* galois_8's LOG_TABLE: LOG_TABLE[x] = i with 2^i = x, for x in 1..255
LOG_TABLE ==
    <<  0,   1,  25,   2,  50,  26, 198,   3, 223,  51, 238,  27, 104, 199,  75,   4,
      100, 224,  14,  52, 141, 239, 129,  28, 193, 105, 248, 200,   8,  76, 113,   5,
      138, 101,  47, 225,  36,  15,  33,  53, 147, 142, 218, 240,  18, 130,  69,  29,
      181, 194, 125, 106,  39, 249, 185, 201, 154,   9, 120,  77, 228, 114, 166,   6,
      191, 139,  98, 102, 221,  48, 253, 226, 152,  37, 179,  16, 145,  34, 136,  54,
      208, 148, 206, 143, 150, 219, 189, 241, 210,  19,  92, 131,  56,  70,  64,  30,
       66, 182, 163, 195,  72, 126, 110, 107,  58,  40,  84, 250, 133, 186,  61, 202,
       94, 155, 159,  10,  21, 121,  43,  78, 212, 229, 172, 115, 243, 167,  87,   7,
      112, 192, 247, 140, 128,  99,  13, 103,  74, 222, 237,  49, 197, 254,  24, 227,
      165, 153, 119,  38, 184, 180, 124,  17,  68, 146, 217,  35,  32, 137,  46,  55,
       63, 209,  91, 149, 188, 207, 205, 144, 135, 151, 178, 220, 252, 190,  97, 242,
       86, 211, 171,  20,  42,  93, 158, 132,  60,  57,  83,  71, 109,  65, 162,  31,
       45,  67, 216, 183, 123, 164, 118, 196,  23,  73, 236, 127,  12, 111, 246, 108,
      161,  59,  82,  41, 157,  85, 170, 251,  96, 134, 177, 187, 204,  62,  90, 203,
       89,  95, 176, 156, 169, 160,  81,  11, 245,  22, 235, 122, 117,  44, 215,  79,
      174, 213, 233, 230, 231, 173, 232, 116, 214, 244, 234, 168,  80,  88, 175>>

\* galois_8::mul
gf_mul(a, b) ==
    IF a = 0 \/ b = 0 THEN 0
    ELSE EXP_TABLE[(LOG_TABLE[a] + LOG_TABLE[b]) % 255]

\* the inverse of a # 0 (galois_8::div(1, a))
gf_inv(a) == EXP_TABLE[(255 - LOG_TABLE[a]) % 255]

\* galois_8::exp(a, n) = a^n, with a^0 = 1
gf_pow(a, n) ==
    IF n = 0 THEN 1
    ELSE IF a = 0 THEN 0
    ELSE EXP_TABLE[(LOG_TABLE[a] * n) % 255]

RECURSIVE gf_sum(_)
gf_sum(s) == IF s = <<>> THEN 0 ELSE gf_add(Head(s), gf_sum(Tail(s)))

\* a matrix is a sequence of rows
mat_mul(A, B) ==
    [i \in 1..Len(A) |->
        [j \in 1..Len(B[1]) |->
            gf_sum([t \in 1..Len(B) |-> gf_mul(A[i][t], B[t][j])])]]

\* Gauss-Jordan elimination of the augmented matrix W from column c on
RECURSIVE gaussian_elimination(_, _)
gaussian_elimination(W, c) ==
    IF c > Len(W) THEN W
    ELSE LET p  == CHOOSE r \in c..Len(W) :
                       W[r][c] # 0 /\ \A q \in c..(r - 1) : W[q][c] = 0
             W1 == [W EXCEPT ![c] = W[p], ![p] = W[c]]
             s  == gf_inv(W1[c][c])
             pr == [j \in 1..Len(W1[c]) |-> gf_mul(s, W1[c][j])]
             W2 == [i \in 1..Len(W1) |->
                      IF i = c THEN pr
                      ELSE [j \in 1..Len(pr) |->
                              gf_add(W1[i][j], gf_mul(W1[i][c], pr[j]))]]
         IN  gaussian_elimination(W2, c + 1)

\* Matrix::invert of an invertible n x n matrix
mat_invert(A) ==
    LET n == Len(A)
        W == [i \in 1..n |-> A[i] \o [j \in 1..n |-> IF i = j THEN 1 ELSE 0]]
        G == gaussian_elimination(W, 1)
    IN  [i \in 1..n |-> SubSeq(G[i], n + 1, 2 * n)]

\* ReedSolomon::build_matrix(data_shards, total_shards)
rs_build_matrix(k, n) ==
    LET vandermonde == [i \in 1..n |-> [j \in 1..k |-> gf_pow(i - 1, j - 1)]]
        top == SubSeq(vandermonde, 1, k)
    IN  mat_mul(vandermonde, mat_invert(top))

\* one coded shard: row . shards, byte by byte
rs_code_shard(row, shards, size) ==
    [b \in 1..size |->
        gf_sum([i \in 1..Len(row) |-> gf_mul(row[i], shards[i][b])])]

(***************************************************************************)
(* ReedSolomon::new(DataShards, ParityShards): encode and reconstruct.     *)
(* An Option<Vec<u8>> is None or Some(bytes).                              *)
(***************************************************************************)
None == <<>>
Some(x) == <<x>>

TotalShards == DataShards + ParityShards
RSMatrix == rs_build_matrix(DataShards, TotalShards)

RsErr(e) == [ok |-> FALSE, err |-> e, shards |-> <<>>]

\* ReedSolomon::encode on the data shards (the parity slices are zeroed
\* outputs of the same size): the parity shards, or an error
rs_encode(data, size) ==
    IF Len(data) < DataShards THEN RsErr("TooFewShards")
    ELSE IF Len(data) > DataShards THEN RsErr("TooManyShards")
    ELSE IF size = 0 THEN RsErr("EmptyShard")
    ELSE [ok |-> TRUE, err |-> "",
          shards |-> [j \in 1..ParityShards |->
                         rs_code_shard(RSMatrix[DataShards + j], data, size)]]

\* ReedSolomon::reconstruct on Vec<Option<Vec<u8>>>: every missing shard is
\* computed from the first DataShards shards that are present
rs_reconstruct(shards) ==
    LET present == SelectSeq([i \in 1..Len(shards) |-> i],
                             LAMBDA i : shards[i] # None)
    IN  IF Len(shards) < TotalShards THEN RsErr("TooFewShards")
        ELSE IF Len(shards) > TotalShards THEN RsErr("TooManyShards")
        ELSE IF \E t \in 1..Len(present) : Len(shards[present[t]][1]) = 0
             THEN RsErr("EmptyShard")
        ELSE IF \E t, u \in 1..Len(present) :
                   Len(shards[present[t]][1]) # Len(shards[present[u]][1])
             THEN RsErr("IncorrectShardSize")
        ELSE IF Len(present) = TotalShards
             THEN [ok |-> TRUE, err |-> "", shards |-> shards]
        ELSE IF Len(present) < DataShards THEN RsErr("TooFewShardsPresent")
        ELSE LET valid  == SubSeq(present, 1, DataShards)
                 decode == mat_invert([t \in 1..DataShards |-> RSMatrix[valid[t]]])
                 inputs == [t \in 1..DataShards |-> shards[valid[t]][1]]
                 size   == Len(inputs[1])
                 data   == [i \in 1..DataShards |->
                              IF shards[i] # None THEN shards[i][1]
                              ELSE rs_code_shard(decode[i], inputs, size)]
             IN  [ok |-> TRUE, err |-> "",
                  shards |-> [i \in 1..TotalShards |->
                     IF shards[i] # None THEN shards[i]
                     ELSE IF i <= DataShards THEN Some(data[i])
                     ELSE Some(rs_code_shard(RSMatrix[i], data, size))]]

(***************************************************************************)
(* FEC coder: FecEncoder and FecDecoder of src/src/network/fec.rs.         *)
(***************************************************************************)
Max(S) == CHOOSE x \in S : \A y \in S : y <= x

\* Vec::resize(new_len, 0)
resize(v, new_len) ==
    IF Len(v) >= new_len THEN SubSeq(v, 1, new_len)
    ELSE v \o [i \in 1..(new_len - Len(v)) |-> 0]

\* FecEncoder::encode_block
encode_block(block_buffer, current_block_id) ==
    LET data_packets == [i \in 1..Len(block_buffer) |->
                            Packet_to_bytes(block_buffer[i])]
        max_size == Max({Len(data_packets[i]) : i \in 1..Len(data_packets)} \cup {0})
        padded   == [i \in 1..Len(data_packets) |-> resize(data_packets[i], max_size)]
        enc      == rs_encode(padded, max_size)
    IN  IF ~enc.ok THEN <<>>
        ELSE [i \in 1..ParityShards |->
                FecPacket(current_block_id, (DataShards + i - 1) % 256,
                          DataShards % 256, ParityShards % 256, enc.shards[i])]

\* encode that tags every block with the same block_id
FecEncoder_encode_same_block(enc, packet) ==
    LET buffer == Append(enc.block_buffer, packet)
    IN  IF Len(buffer) >= DataShards
        THEN [enc |-> [current_block_id |-> enc.current_block_id,
                       block_buffer |-> <<>>],
              out |-> encode_block(buffer, enc.current_block_id)]
        ELSE [enc |-> [enc EXCEPT !.block_buffer = buffer], out |-> <<>>]

\* FecEncoder::encode: the encoder after the call and the packets returned
\* (current_block_id is a u32 and wraps after 2^32 blocks, which no run of
\* the model reaches)
FecEncoder_encode(enc, packet) ==
    LET buffer == Append(enc.block_buffer, packet)
    IN  IF Len(buffer) >= DataShards
        THEN [enc |-> [current_block_id |-> enc.current_block_id + 1,
                       block_buffer |-> <<>>],
              out |-> encode_block(buffer, enc.current_block_id)]
        ELSE [enc |-> [enc EXCEPT !.block_buffer = buffer], out |-> <<>>]

\* the loop of flush: push empty Video packets until the buffer holds
\* data_shards packets
RECURSIVE pad_block(_)
pad_block(buffer) ==
    IF Len(buffer) < DataShards
    THEN pad_block(Append(buffer, Packet(Video, 0, 0, <<>>)))
    ELSE buffer

\* flush that encodes the partial block as it is
FecEncoder_flush_unpadded(enc) ==
    IF enc.block_buffer = <<>> THEN [enc |-> enc, out |-> <<>>]
    ELSE [enc |-> [current_block_id |-> enc.current_block_id + 1,
                   block_buffer |-> <<>>],
          out |-> encode_block(enc.block_buffer, enc.current_block_id)]

\* FecEncoder::flush: the encoder after the call and the packets returned
FecEncoder_flush(enc) ==
    IF enc.block_buffer = <<>> THEN [enc |-> enc, out |-> <<>>]
    ELSE [enc |-> [current_block_id |-> enc.current_block_id + 1,
                   block_buffer |-> <<>>],
          out |-> encode_block(pad_block(enc.block_buffer), enc.current_block_id)]

\* vec![None; n]
RECURSIVE vec_none(_)
vec_none(n) == IF n = 0 THEN <<>> ELSE Append(vec_none(n - 1), None)

\* FecBlock { .. } as created by or_insert_with
FecBlock(data_count, parity_count, created_at) ==
    [data_shards |-> vec_none(data_count),
     parity_shards |-> vec_none(parity_count),
     data_count |-> data_count, parity_count |-> parity_count,
     created_at |-> created_at, recovered |-> FALSE]

Received(slots) == Cardinality({i \in 1..Len(slots) : slots[i] # None})

pad_slots(slots, max_size) ==
    [i \in 1..Len(slots) |->
        IF slots[i] # None THEN Some(resize(slots[i][1], max_size)) ELSE None]

\* the recovered packets of try_recover's last loop, data slots from..data_count
RECURSIVE recovered_from(_, _, _)
recovered_from(block, shards, from) ==
    IF from > block.data_count \/ from > Len(shards) THEN <<>>
    ELSE LET rest == recovered_from(block, shards, from + 1)
         IN  IF block.data_shards[from] = None /\ shards[from] # None
             THEN LET parsed == Packet_from_bytes(shards[from][1])
                  IN  IF parsed.ok THEN <<parsed.packet>> \o rest ELSE rest
             ELSE rest

\* the data slots (1-based) whose reconstructed shard that loop pushes
RECURSIVE recovered_slots(_, _, _)
recovered_slots(block, shards, from) ==
    IF from > block.data_count \/ from > Len(shards) THEN <<>>
    ELSE LET rest == recovered_slots(block, shards, from + 1)
         IN  IF block.data_shards[from] = None /\ shards[from] # None
                /\ Packet_from_bytes(shards[from][1]).ok
             THEN <<from>> \o rest
             ELSE rest

\* try_recover that gives a block up when its reconstruction fails
try_recover_giving_up(blocks, block_id) ==
    LET block == blocks[block_id]
        all   == block.data_shards \o block.parity_shards
        max_size == Max({Len(all[i][1]) : i \in {j \in 1..Len(all) : all[j] # None}} \cup {0})
        rec   == rs_reconstruct(pad_slots(all, max_size))
    IN  IF block.recovered
        THEN [blocks |-> blocks, ret |-> <<>>, slots |-> <<>>, rs |-> "none"]
        ELSE IF Received(block.data_shards) + Received(block.parity_shards) < block.data_count
        THEN [blocks |-> blocks, ret |-> <<>>, slots |-> <<>>, rs |-> "none"]
        ELSE IF Received(block.data_shards) = block.data_count
        THEN [blocks |-> [blocks EXCEPT ![block_id].recovered = TRUE],
              ret |-> <<>>, slots |-> <<>>, rs |-> "none"]
        ELSE IF ~rec.ok
        THEN [blocks |-> [blocks EXCEPT ![block_id].recovered = TRUE],
              ret |-> <<>>, slots |-> <<>>, rs |-> "err"]
        ELSE [blocks |-> [blocks EXCEPT ![block_id].recovered = TRUE],
              ret |-> recovered_from(block, rec.shards, 1),
              slots |-> recovered_slots(block, rec.shards, 1), rs |-> "ok"]

\* try_recover that runs reconstruction on any number of shards
try_recover_below_k(blocks, block_id) ==
    LET block == blocks[block_id]
        all   == block.data_shards \o block.parity_shards
        max_size == Max({Len(all[i][1]) : i \in {j \in 1..Len(all) : all[j] # None}} \cup {0})
        rec   == rs_reconstruct(pad_slots(all, max_size))
    IN  IF block.recovered
        THEN [blocks |-> blocks, ret |-> <<>>, slots |-> <<>>, rs |-> "none"]
        ELSE IF Received(block.data_shards) = block.data_count
        THEN [blocks |-> [blocks EXCEPT ![block_id].recovered = TRUE],
              ret |-> <<>>, slots |-> <<>>, rs |-> "none"]
        ELSE IF ~rec.ok
        THEN [blocks |-> blocks, ret |-> <<>>, slots |-> <<>>, rs |-> "err"]
        ELSE [blocks |-> [blocks EXCEPT ![block_id].recovered = TRUE],
              ret |-> recovered_from(block, rec.shards, 1),
              slots |-> recovered_slots(block, rec.shards, 1), rs |-> "ok"]

try_recover_again(blocks, block_id) ==
    LET block == blocks[block_id]
        all   == block.data_shards \o block.parity_shards
        max_size == Max({Len(all[i][1]) : i \in {j \in 1..Len(all) : all[j] # None}} \cup {0})
        rec   == rs_reconstruct(pad_slots(all, max_size))
    IN  IF Received(block.data_shards) + Received(block.parity_shards) < block.data_count
        THEN [blocks |-> blocks, ret |-> <<>>, slots |-> <<>>, rs |-> "none"]
        ELSE IF Received(block.data_shards) = block.data_count
        THEN [blocks |-> [blocks EXCEPT ![block_id].recovered = TRUE],
              ret |-> <<>>, slots |-> <<>>, rs |-> "none"]
        ELSE IF ~rec.ok
        THEN [blocks |-> blocks, ret |-> <<>>, slots |-> <<>>, rs |-> "err"]
        ELSE [blocks |-> [blocks EXCEPT ![block_id].recovered = TRUE],
              ret |-> recovered_from(block, rec.shards, 1),
              slots |-> recovered_slots(block, rec.shards, 1), rs |-> "ok"]

\* FecDecoder::try_recover: the block cache after the call, the packets
\* returned (<<>> for None), the data slots they were rebuilt for, and
\* whether reconstruct ran ("ok", "err") or not
try_recover(blocks, block_id) ==
    LET block == blocks[block_id]
        data_received   == Received(block.data_shards)
        parity_received == Received(block.parity_shards)
        total_received  == data_received + parity_received
        all      == block.data_shards \o block.parity_shards
        max_size == Max({Len(all[i][1]) : i \in {j \in 1..Len(all) : all[j] # None}} \cup {0})
        rec      == rs_reconstruct(pad_slots(all, max_size))
    IN  IF block.recovered
        THEN [blocks |-> blocks, ret |-> <<>>, slots |-> <<>>, rs |-> "none"]
        ELSE IF total_received < block.data_count
        THEN [blocks |-> blocks, ret |-> <<>>, slots |-> <<>>, rs |-> "none"]
        ELSE IF data_received = block.data_count
        THEN [blocks |-> [blocks EXCEPT ![block_id].recovered = TRUE],
              ret |-> <<>>, slots |-> <<>>, rs |-> "none"]
        ELSE IF ~rec.ok
        THEN [blocks |-> blocks, ret |-> <<>>, slots |-> <<>>, rs |-> "err"]
        ELSE [blocks |-> [blocks EXCEPT ![block_id].recovered = TRUE],
              ret |-> recovered_from(block, rec.shards, 1),
              slots |-> recovered_slots(block, rec.shards, 1), rs |-> "ok"]

\* an entry lookup that drops every other block of the cache
entry_or_insert_alone(blocks, block_id, fresh) ==
    IF block_id \in DOMAIN blocks THEN (block_id :> blocks[block_id])
    ELSE (block_id :> fresh)

\* self.blocks.entry(block_id).or_insert_with(..)
entry_or_insert(blocks, block_id, fresh) ==
    IF block_id \in DOMAIN blocks THEN blocks ELSE blocks @@ (block_id :> fresh)

\* FecDecoder::add_data_packet up to try_recover: the cache with the shard
\* stored.  panics: the outcomes a build can produce, TRUE for a panic (here
\* index out of bounds, when the block has fewer data slots than the
\* decoder's data_shards)
store_data(blocks, seq, data, now) ==
    LET block_id == seq \div DataShards
        index    == seq % DataShards
        b1       == entry_or_insert(blocks, block_id,
                        FecBlock(DataShards % 256, ParityShards % 256, now))
    IN  IF index < DataShards
        THEN IF index + 1 > Len(b1[block_id].data_shards)
             THEN [panics |-> {TRUE}, blocks |-> b1]
             ELSE [panics |-> {FALSE},
                   blocks |-> [b1 EXCEPT ![block_id].data_shards[index + 1] = Some(data)]]
        ELSE [panics |-> {FALSE}, blocks |-> b1]

\* FecDecoder::add_fec_packet up to try_recover.  index - data_count is a
\* usize subtraction: below zero it panics in a build with overflow checks
\* and wraps to a huge index (never < len) in a build without them
store_parity(blocks, fp, now) ==
    LET b1 == entry_or_insert(blocks, fp.block_id,
                  FecBlock(fp.data_count, fp.parity_count, now))
        parity_index == fp.index - fp.data_count
    IN  IF parity_index < 0
        THEN [panics |-> {TRUE, FALSE}, blocks |-> b1]
        ELSE IF parity_index < Len(b1[fp.block_id].parity_shards)
        THEN [panics |-> {FALSE},
              blocks |-> [b1 EXCEPT ![fp.block_id].parity_shards[parity_index + 1]
                                        = Some(fp.data)]]
        ELSE [panics |-> {FALSE}, blocks |-> b1]

NoResult == [ok |-> FALSE, err |-> "none"]

WireInit ==
    /\ w_pkt \in {Packet(t, pts, s, d) :
                    t \in PacketTypes, pts \in PtsSample, s \in SeqSample,
                    d \in PayloadSample}
    /\ w_buf = <<>>
    /\ w_res = NoResult
    /\ w_pc = "start"

WireIdle ==
    /\ w_pkt = Packet(Video, 0, 0, <<>>)
    /\ w_buf = <<>>
    /\ w_res = NoResult
    /\ w_pc = "idle"

\* let serialized = packet.to_bytes();
Serialize ==
    /\ w_pc = "start"
    /\ w_buf' = Packet_to_bytes(w_pkt)
    /\ w_pc' = "serialized"
    /\ UNCHANGED <<w_pkt, w_res, notWire>>

\* the buffer reaches the parser cut short (a partial datagram)
Truncate ==
    /\ w_pc = "serialized"
    /\ \E n \in {0, HEADER_SIZE - 1, Len(w_buf) - 1} :
          /\ n >= 0
          /\ w_buf' = SubSeq(w_buf, 1, n)
    /\ w_pc' = "cut"
    /\ UNCHANGED <<w_pkt, w_res, notWire>>

\* the buffer reaches the parser followed by zero padding (a padded FEC shard)
Pad ==
    /\ w_pc = "serialized"
    /\ w_buf' = w_buf \o <<0>>
    /\ w_pc' = "padded"
    /\ UNCHANGED <<w_pkt, w_res, notWire>>

\* let deserialized = Packet::from_bytes(serialized.freeze());
Deserialize ==
    /\ w_pc \in {"serialized", "cut", "padded"}
    /\ w_res' = Packet_from_bytes(w_buf)
    /\ w_pc' = IF w_pc = "serialized" THEN "parsed" ELSE "parsed_" \o w_pc
    /\ UNCHANGED <<w_pkt, w_buf, notWire>>

NextWire == Serialize \/ Truncate \/ Pad \/ Deserialize

(***************************************************************************)
(* The FEC coder as a state machine: a sender encodes packets, the network *)
(* delivers any of the data and parity packets, in any order and any       *)
(* number of times, or forged ones, to one decoder; time passes.           *)
(***************************************************************************)
BlockIds == 0..((MaxEncoded - 1) \div DataShards)

\* what the sender may encode as its next packet: (kind, payload)
EncodeSample == {<<Video, <<7, 0>>>>, <<Audio, <<5>>>>}
\* a data shard that is not a packet of the sender
ForgedData == <<9>>
\* parity packets that are not the encoder's: an empty shard of the right
\* geometry, a packet of another geometry, an index below data_count, and
\* packets announcing no data shard or no parity shard
ForgedFec ==
    {FecPacket(b, DataShards, DataShards, ParityShards, <<>>) : b \in BlockIds}
    \cup {FecPacket(b, 1, 1, 1, <<9>>) : b \in BlockIds}
    \cup {FecPacket(b, 0, DataShards, ParityShards, <<9>>) : b \in BlockIds}
    \cup {FecPacket(b, 0, 0, ParityShards, <<9>>) : b \in BlockIds}
    \cup {FecPacket(b, DataShards, DataShards, 0, <<9>>) : b \in BlockIds}

NoCall == [op |-> "none", block_id |-> 0, rs |-> "none",
           prior_recovered |-> FALSE, ever_recovered |-> FALSE,
           ever_ran |-> FALSE, missing |-> {},
           counts |-> <<>>, prior_counts |-> <<>>, total |-> 0,
           slots |-> <<>>, err |-> "none", prior |-> <<>>,
           prior_cleanup |-> 0, at |-> 0, out |-> <<>>, after |-> <<>>]

FecInit ==
    /\ f_enc = [current_block_id |-> 0, block_buffer |-> <<>>]
    /\ f_sent = <<>>
    /\ f_parity = <<>>
    /\ f_blocks = <<>>
    /\ f_last_cleanup = 0
    /\ f_now = 0
    /\ f_panicked = FALSE
    /\ f_ret = <<>>
    /\ f_last = NoCall
    /\ f_hist = [b \in BlockIds |->
                   [fed |-> "nothing", recovered |-> FALSE, ran |-> FALSE]]

\* encoder.encode(packet), the sender numbering its packets 0, 1, 2, ...,
\* for at most max_calls calls
EncodeUpTo(max_calls) ==
    /\ Len(f_sent) < max_calls
    /\ \E c \in EncodeSample :
          LET packet == Packet(c[1], 1000 * Len(f_sent), Len(f_sent), c[2])
          IN  \E res \in {FecEncoder_encode(f_enc, packet)} :
                /\ f_enc' = res.enc
                /\ f_sent' = Append(f_sent, packet)
                /\ f_parity' = f_parity \o res.out
    /\ UNCHANGED <<f_blocks, f_last_cleanup, f_now, f_panicked, f_ret, f_last,
                   f_hist, notFec>>

Encode == EncodeUpTo(MaxEncoded)

\* the encoder alone, over several blocks
NextEncoder == EncodeUpTo(MaxEncodeCalls)

\* encoder.flush()
Flush ==
    /\ \E res \in {FecEncoder_flush(f_enc)} :
          /\ f_enc' = res.enc
          /\ f_parity' = f_parity \o res.out
          /\ f_last' = [NoCall EXCEPT !.op = "flush", !.prior = f_enc,
                                      !.out = res.out, !.after = res.enc]
    /\ UNCHANGED <<f_sent, f_blocks, f_last_cleanup, f_now, f_panicked, f_ret,
                   f_hist, notFec>>

\* the encoder with flushes between its encode calls
NextFlush == EncodeUpTo(MaxEncodeCalls) \/ Flush

\* how a block has been fed so far: only payloads, only serialized packets
\* ("frame"), each with or without the encoder's parity, or anything else
Fed(before, kind) ==
    IF kind = "parity" THEN before
    ELSE IF before \in {"nothing", kind} THEN kind
    ELSE "mixed"

\* the bookkeeping of one insertion: stored is store_data's or store_parity's
\* result, after which the code calls try_recover(block_id); counts is the
\* data_count and parity_count a FEC packet announces.  Both insertions
\* return Option<Vec<Packet>>: no error reaches the caller (err is "none")
Insertion(op, block_id, kind, counts, stored) ==
    \E panic \in stored.panics :
    \E res \in {IF panic THEN [blocks |-> stored.blocks, ret |-> <<>>,
                               slots |-> <<>>, rs |-> "none"]
                ELSE try_recover(stored.blocks, block_id)} :
        /\ f_panicked' = panic
        /\ f_blocks' = res.blocks
        /\ f_ret' = res.ret
        /\ f_last' =
             [op |-> op, block_id |-> block_id, rs |-> res.rs,
              prior_recovered |-> block_id \in DOMAIN f_blocks
                                    /\ f_blocks[block_id].recovered,
              ever_recovered |-> block_id \in DOMAIN f_hist
                                   /\ f_hist[block_id].recovered,
              ever_ran |-> block_id \in DOMAIN f_hist /\ f_hist[block_id].ran,
              missing |-> LET slots == stored.blocks[block_id].data_shards
                          IN  {i \in 1..Len(slots) : slots[i] = None},
              counts |-> counts,
              prior_counts |-> IF block_id \in DOMAIN f_blocks
                               THEN <<f_blocks[block_id].data_count,
                                      f_blocks[block_id].parity_count>>
                               ELSE <<>>,
              total |-> Received(stored.blocks[block_id].data_shards)
                          + Received(stored.blocks[block_id].parity_shards),
              slots |-> res.slots, err |-> "none", prior |-> <<>>,
              prior_cleanup |-> 0, at |-> 0, out |-> <<>>, after |-> <<>>]
        /\ f_hist' = [b \in DOMAIN f_hist |->
             IF b # block_id THEN f_hist[b]
             ELSE [fed |-> Fed(f_hist[b].fed, kind),
                   recovered |-> f_hist[b].recovered
                                   \/ res.blocks[block_id].recovered,
                   ran |-> f_hist[b].ran \/ res.rs # "none"]]

\* decoder.add_data_packet(seq, data) for a data packet of the sender, the
\* caller passing the packet's payload (as the datagram transport and the
\* unit test do) or the packet's serialized bytes
AddDataPacket ==
    /\ ~f_panicked
    /\ \E j \in 1..Len(f_sent), form \in {"payload", "frame"} :
          LET p    == f_sent[j]
              data == IF form = "payload" THEN p.data ELSE Packet_to_bytes(p)
          IN  Insertion("data", p.seq \div DataShards, form, <<>>,
                        store_data(f_blocks, p.seq, data, f_now))
    /\ UNCHANGED <<f_enc, f_sent, f_parity, f_last_cleanup, f_now, notFec>>

\* decoder.add_data_packet(seq, data) with bytes that are no packet's
AddForgedDataAt(seqs) ==
    /\ ~f_panicked
    /\ \E seq \in seqs :
          Insertion("data", seq \div DataShards, "forged", <<>>,
                    store_data(f_blocks, seq, ForgedData, f_now))
    /\ UNCHANGED <<f_enc, f_sent, f_parity, f_last_cleanup, f_now, notFec>>

AddForgedData == AddForgedDataAt(0..(MaxEncoded - 1))

\* the first data shard of each of the first EvictionBlocks blocks arrives
AddFirstShard ==
    AddForgedDataAt({b * DataShards : b \in 0..(EvictionBlocks - 1)})

\* decoder.add_fec_packet(fec_packet) for a parity packet of the encoder
AddFecPacket ==
    /\ ~f_panicked
    /\ \E j \in 1..Len(f_parity) :
          Insertion("fec", f_parity[j].block_id, "parity",
                    <<f_parity[j].data_count, f_parity[j].parity_count>>,
                    store_parity(f_blocks, f_parity[j], f_now))
    /\ UNCHANGED <<f_enc, f_sent, f_parity, f_last_cleanup, f_now, notFec>>

\* decoder.add_fec_packet(fec_packet) for a packet that is not the encoder's
AddForgedFec ==
    /\ ~f_panicked
    /\ \E fp \in ForgedFec :
          Insertion("fec", fp.block_id, "forged",
                    <<fp.data_count, fp.parity_count>>,
                    store_parity(f_blocks, fp, f_now))
    /\ UNCHANGED <<f_enc, f_sent, f_parity, f_last_cleanup, f_now, notFec>>

\* the sender's packets of the first InterleaveBlocks blocks, each with a
\* payload of its own, and the parity packets of block b
InterleaveSent ==
    [i \in 1..(InterleaveBlocks * DataShards) |-> Packet(Video, 0, i - 1, <<i>>)]
InterleaveParity(b) ==
    encode_block(SubSeq(InterleaveSent, b * DataShards + 1, (b + 1) * DataShards), b)

\* what may be inserted: a data packet (add_data_packet(seq, data), the
\* data being the serialized packet) or a parity packet (add_fec_packet(fp))
InterleaveShards ==
    {[op |-> "data", seq |-> InterleaveSent[i].seq,
      data |-> Packet_to_bytes(InterleaveSent[i]),
      fp |-> FecPacket(0, 0, 0, 0, <<>>)] : i \in 1..Len(InterleaveSent)}
    \cup {[op |-> "fec", seq |-> 0, data |-> <<>>, fp |-> InterleaveParity(b)[j]] :
             b \in 0..(InterleaveBlocks - 1), j \in 1..ParityShards}

\* the block an insertion goes to
BlockOf(e) == IF e.op = "data" THEN e.seq \div DataShards ELSE e.fp.block_id

InterleaveInit == i_log = <<>>

\* the shards of several blocks arrive in any order, any number of times
AddInterleaved ==
    /\ ~f_panicked
    /\ Len(i_log) < MaxInterleaved
    /\ \E e \in InterleaveShards :
          /\ IF e.op = "data"
             THEN Insertion("data", BlockOf(e), "frame", <<>>,
                            store_data(f_blocks, e.seq, e.data, f_now))
             ELSE Insertion("fec", BlockOf(e), "parity",
                            <<e.fp.data_count, e.fp.parity_count>>,
                            store_parity(f_blocks, e.fp, f_now))
          /\ i_log' = Append(i_log, e)
    /\ UNCHANGED <<f_enc, f_sent, f_parity, f_last_cleanup, f_now>>
    /\ UNCHANGED <<wireVars, quicVars, tcpVars, syncVars, playVars, bitrateVars,
                   sessVars, jitVars, negVars>>

NextInterleave == AddInterleaved

\* cleanup that keeps a block up to and including its tenth second
cleanup_keeping_at_ttl(blocks, last_cleanup, now) ==
    IF now - last_cleanup < CLEANUP_INTERVAL_SECS
    THEN [blocks |-> blocks, last_cleanup |-> last_cleanup]
    ELSE [blocks |-> [b \in {x \in DOMAIN blocks :
                                now - blocks[x].created_at <= BLOCK_TTL_SECS}
                         |-> blocks[b]],
          last_cleanup |-> now]

\* FecDecoder::cleanup: the block cache and last_cleanup after the call
cleanup(blocks, last_cleanup, now) ==
    IF now - last_cleanup < CLEANUP_INTERVAL_SECS
    THEN [blocks |-> blocks, last_cleanup |-> last_cleanup]
    ELSE [blocks |-> [b \in {x \in DOMAIN blocks :
                                now - blocks[x].created_at < BLOCK_TTL_SECS}
                         |-> blocks[b]],
          last_cleanup |-> now]

\* decoder.cleanup()
Cleanup ==
    /\ ~f_panicked
    /\ \E res \in {cleanup(f_blocks, f_last_cleanup, f_now)} :
          /\ f_blocks' = res.blocks
          /\ f_last_cleanup' = res.last_cleanup
          /\ f_hist' = [b \in DOMAIN f_hist |->
                IF b \in DOMAIN f_blocks /\ b \notin DOMAIN res.blocks
                THEN [f_hist[b] EXCEPT !.fed = "mixed"]
                ELSE f_hist[b]]
    /\ f_last' = [NoCall EXCEPT !.op = "cleanup", !.prior = f_blocks,
                                !.prior_cleanup = f_last_cleanup,
                                !.at = f_now]
    /\ f_ret' = <<>>
    /\ UNCHANGED <<f_enc, f_sent, f_parity, f_now, f_panicked, notFec>>

\* the clock advances by step seconds, up to max
TickBy(step, max) ==
    /\ f_now < max
    /\ f_now' = f_now + step
    /\ UNCHANGED <<f_enc, f_sent, f_parity, f_blocks, f_last_cleanup,
                   f_panicked, f_ret, f_last, f_hist, notFec>>

\* the clock is read at multiples of TICK_SECS
Tick == TickBy(TICK_SECS, MaxTime)

\* the clock is read every second
TickSecond == TickBy(1, MaxEvictionTime)

\* the decoder's cache over time: first shards arrive, cleanup is called,
\* seconds pass
NextEviction == AddFirstShard \/ Cleanup \/ TickSecond

NextFec ==
    \/ Encode
    \/ AddDataPacket
    \/ AddForgedData
    \/ AddFecPacket
    \/ AddForgedFec
    \/ Cleanup
    \/ Tick

(***************************************************************************)
(* The datagram transport: QuicConnection::recv and the FecDecoder of      *)
(* src/src/network/quic.rs.                                                *)
(***************************************************************************)
\* the loss check of recv: the number of packets counted as lost for a
\* datagram seq after last_seq.  overflow: last_seq + 1 or the subtraction
\* left the range of u32 (a panic in a build with overflow checks, the
\* wrapped value in a build without them)
lost_counting_each(last_seq, seq) ==
    LET diff == u_sub(seq, last_seq)
    IN  IF u_gt(seq, last_seq)
        THEN [overflow |-> diff.borrow = 1, lost |-> diff.v]
        ELSE [overflow |-> FALSE, lost |-> U32(0)]

lost_packets(last_seq, seq) ==
    LET next == u_add(last_seq, U32(1))
        diff == u_sub(seq, last_seq)
        lost == u_sub(diff.v, U32(1))
    IN  IF u_gt(seq, next.v)
        THEN [overflow |-> next.carry = 1 \/ diff.borrow = 1 \/ lost.borrow = 1,
              lost |-> lost.v]
        ELSE [overflow |-> next.carry = 1, lost |-> U32(0)]

\* packet_loss = (packets_lost as f64 / total_packets as f64) * 100.0, kept as
\* the pair of integers the quotient is taken of
Ratio(num, den) == [num |-> num, den |-> den]

\* QuicConnection::update_stats: the field computed from the counters
\* (rtt_ms and bandwidth_mbps are copied from the QUIC stack's path statistics)
update_stats(stats) ==
    LET total_packets == u_add(stats.packets_received, stats.packets_lost).v
    IN  IF u_gt(total_packets, U64(0))
        THEN [stats EXCEPT !.packet_loss = Ratio(stats.packets_lost, total_packets)]
        ELSE stats

\* FecDecoder::cleanup_old_blocks (quic.rs)
cleanup_old_blocks(dec, now) ==
    [blocks |-> [b \in {x \in DOMAIN dec.blocks :
                          now - dec.blocks[x].created_at < QUIC_BLOCK_TTL_SECS}
                   |-> dec.blocks[b]],
     last_cleanup |-> now]

\* FecDecoder::add_packet (quic.rs): the packet is not stored
add_packet(dec, seq, data, now) ==
    IF now - dec.last_cleanup > QUIC_CLEANUP_INTERVAL_SECS
    THEN cleanup_old_blocks(dec, now)
    ELSE dec

\* HashMap::insert
map_insert(m, k, v) == [x \in DOMAIN m \cup {k} |-> IF x = k THEN v ELSE m[x]]

\* FecDecoder::process_fec (quic.rs): the decoder after the call and the
\* Option<Packet> returned
process_fec(dec, fec_data, now) ==
    LET parsed == FecPacket_from_bytes(fec_data)
        fp     == parsed.packet
        fresh  == [block_id |-> fp.block_id, data_packets |-> <<>>,
                   parity_packets |-> <<>>, data_count |-> fp.data_count,
                   parity_count |-> fp.parity_count, created_at |-> now]
        b1     == entry_or_insert(dec.blocks, fp.block_id, fresh)
    IN  IF ~parsed.ok THEN [dec |-> dec, ret |-> None]
        ELSE [dec |-> [dec EXCEPT !.blocks =
                         [b1 EXCEPT ![fp.block_id].parity_packets =
                              map_insert(@, fp.index, fp.data)]],
              ret |-> None]

Pending == [ok |-> FALSE, err |-> "pending"]

\* recv after the bookkeeping: what it returns for the parsed packet, given
\* what process_fec returned for a Fec packet; Pending: it awaits the next
\* datagram (return self.recv().await)
recv_passing(packet, recovered) == Ok(packet)

recv_result(packet, recovered) ==
    IF packet.packet_type = Fec
    THEN IF recovered # None THEN Ok(recovered[1]) ELSE Pending
    ELSE Ok(packet)

\* QuicConnection::new succeeds: the client runs on the datagram transport
QuicConnect ==
    /\ n_conn = "none"
    /\ n_conn' = "Quic"
    /\ q_last_seq' = U32(0)
    /\ q_stats' = [packets_received |-> U64(0), packets_lost |-> U64(0),
                   bytes_received |-> U64(0),
                   packet_loss |-> Ratio(U64(0), U64(1))]
    /\ q_blocks' = <<>>
    /\ q_last_cleanup' = q_now
    /\ UNCHANGED <<q_now, q_closed, q_panicked, q_ret, q_last, q_hist, notQuic>>

\* the sequence numbers a datagram may carry
QuicSeqSample == {U32(0), U32(1), U32(2), U32(4), U32(5), U32(8), U32_MAX}
\* the sequence numbers of the loss-accounting example
LossExample == <<1, 2, 4, 5, 8>>

\* the sender's block 0 and its parity packets
QuicSent == [i \in 1..DataShards |-> Packet(Video, 0, i - 1, <<7>>)]
QuicParity == encode_block(QuicSent, 0)
QuicParityPayloads == {FecPacket_to_bytes(QuicParity[j]) : j \in 1..Len(QuicParity)}

\* Packet::to_bytes for a packet whose seq is given by its four bytes
Frame(packet_type, pts, seq, data) ==
    <<packet_type>> \o to_le_bytes(pts, 8) \o seq \o to_le_bytes(Len(data), 4)
        \o data

\* the datagrams the peer may send: data packets, Fec packets carrying the
\* sender's parity or bytes too short for a FecPacket, and a runt
Datagrams ==
    {Frame(Video, 0, s, <<7>>) : s \in QuicSeqSample}
    \cup {Frame(Fec, 0, U32(DataShards), d) : d \in QuicParityPayloads}
    \cup {Frame(Fec, 0, U32(DataShards), <<4>>), <<Video>>}

NoDatagram == [op |-> "none", packet_type |-> 0, seq |-> U32(0),
               genuine_parity |-> FALSE, prev_last_seq |-> U32(0), prev_lost |-> U64(0),
               prev_received |-> U64(0), after_fec |-> FALSE]

QuicInit ==
    /\ n_conn = "none"
    /\ q_last_seq = U32(0)
    /\ q_stats = [packets_received |-> U64(0), packets_lost |-> U64(0),
                  bytes_received |-> U64(0),
                  packet_loss |-> Ratio(U64(0), U64(1))]
    /\ q_blocks = <<>>
    /\ q_last_cleanup = 0
    /\ q_now = 0
    /\ q_closed = FALSE
    /\ q_panicked = FALSE
    /\ q_ret = NoResult
    /\ q_last = NoDatagram
    /\ q_hist = [gapless |-> TRUE, example |-> 0, data_seen |-> {},
                 parity_seen |-> {}, absorbed |-> FALSE, after_close |-> FALSE,
                 seqs |-> <<>>]

\* what the datagrams received so far amount to, after one more
\* (seqs: the seq values below log_below in their order of arrival)
QuicHistory(packet, result, log_below) ==
    [gapless |->
        /\ q_hist.gapless
        /\ IF q_stats.packets_received = U64(0)
           THEN packet.seq \in {U32(0), U32(1)}
           ELSE /\ q_last_seq # U32_MAX
                /\ packet.seq = u_add(q_last_seq, U32(1)).v,
     example |->
        IF /\ q_hist.example \in 0..(Len(LossExample) - 1)
           /\ packet.seq = U32(LossExample[q_hist.example + 1])
        THEN q_hist.example + 1 ELSE -1,
     data_seen |->
        IF packet.packet_type = Video /\ u_gt(U32(DataShards), packet.seq)
        THEN q_hist.data_seen \cup {get_uint_le(packet.seq)}
        ELSE q_hist.data_seen,
     parity_seen |->
        IF packet.packet_type = Fec /\ packet.data \in QuicParityPayloads
        THEN q_hist.parity_seen \cup {packet.data[5]}
        ELSE q_hist.parity_seen,
     absorbed |-> result = Pending,
     after_close |-> FALSE,
     seqs |->
        IF u_gt(U32(log_below), packet.seq) /\ result # Pending
        THEN Append(q_hist.seqs, get_uint_le(packet.seq))
        ELSE q_hist.seqs]

\* QuicConnection::recv taking one datagram: at its call, or where it awaits
\* the next datagram after a Fec datagram
QuicRecvOf(datagrams, max, log_below) ==
    /\ n_conn = "Quic"
    /\ ~q_closed /\ ~q_panicked
    /\ u_gt(U64(max), q_stats.packets_received)
    /\ \E data \in datagrams :
       \E parsed \in {Packet_from_bytes_wide(data)} :
          IF ~parsed.ok
          THEN /\ q_ret' = Err("Protocol")
               /\ q_last' = [NoDatagram EXCEPT !.op = "malformed"]
               /\ q_hist' = [q_hist EXCEPT !.absorbed = FALSE]
               /\ UNCHANGED <<q_last_seq, q_stats, q_blocks, q_last_cleanup,
                              q_panicked>>
          ELSE LET packet == parsed.packet
                   loss   == lost_packets(q_last_seq, packet.seq)
                   lost   == u_add(q_stats.packets_lost, as_u64(loss.lost))
                   bytes  == u_add(q_stats.bytes_received, U64(Len(data)))
                   count  == u_add(q_stats.packets_received, U64(1))
                   stats  == update_stats(
                                [q_stats EXCEPT !.packets_lost = lost.v,
                                                !.bytes_received = bytes.v,
                                                !.packets_received = count.v])
                   dec    == [blocks |-> q_blocks, last_cleanup |-> q_last_cleanup]
                   fec    == process_fec(dec, packet.data, q_now)
                   dec1   == IF packet.packet_type = Fec THEN fec.dec
                             ELSE add_packet(dec, packet.seq, packet.data, q_now)
                   result == recv_result(packet,
                                IF packet.packet_type = Fec THEN fec.ret ELSE None)
                   overflow == loss.overflow \/ lost.carry = 1
                                 \/ bytes.carry = 1 \/ count.carry = 1
               IN  \E panic \in (IF overflow THEN BOOLEAN ELSE {FALSE}) :
                     /\ q_panicked' = panic
                     /\ q_last' = [op |-> "datagram",
                                   packet_type |-> packet.packet_type,
                                   seq |-> packet.seq,
                                   genuine_parity |->
                                       /\ packet.packet_type = Fec
                                       /\ packet.data \in QuicParityPayloads,
                                   prev_last_seq |-> q_last_seq,
                                   prev_lost |-> q_stats.packets_lost,
                                   prev_received |-> q_stats.packets_received,
                                   after_fec |-> q_hist.absorbed]
                     /\ q_hist' = QuicHistory(packet,
                                              IF panic THEN Pending ELSE result,
                                              log_below)
                     /\ IF panic
                        THEN /\ q_ret' = Pending
                             /\ UNCHANGED <<q_last_seq, q_stats, q_blocks,
                                            q_last_cleanup>>
                        ELSE /\ q_last_seq' = packet.seq
                             /\ q_stats' = stats
                             /\ q_blocks' = dec1.blocks
                             /\ q_last_cleanup' = dec1.last_cleanup
                             /\ q_ret' = result
    /\ UNCHANGED <<n_conn, q_now, q_closed, notQuic>>

QuicRecv == QuicRecvOf(Datagrams, MaxDatagrams, 0)

\* the datagrams of a stream numbered from 1 that the network may deliver
\* in any order and more than once
ReorderDatagrams == {Frame(Video, 0, U32(n), <<7>>) : n \in 1..MaxReorderSeq}

\* recv taking a datagram of the reordered stream
QuicRecvReordered == QuicRecvOf(ReorderDatagrams, MaxReordered, MaxReorderSeq + 1)

NextReorder ==
    \/ QuicConnect
    \/ QuicRecvReordered

\* recv on a closed connection: recv_datagram fails and recv returns the error
QuicRecvFails ==
    /\ n_conn = "Quic"
    /\ q_closed /\ ~q_panicked
    /\ q_ret # Err("Quic")
    /\ q_ret' = Err("Quic")
    /\ q_hist' = [q_hist EXCEPT !.absorbed = FALSE, !.after_close = TRUE]
    /\ UNCHANGED <<n_conn, q_last_seq, q_stats, q_blocks, q_last_cleanup,
                   q_now, q_closed, q_panicked, q_last, notQuic>>

\* QuicConnection::close
QuicClose ==
    /\ n_conn = "Quic"
    /\ ~q_closed
    /\ q_closed' = TRUE
    /\ UNCHANGED <<n_conn, q_last_seq, q_stats, q_blocks, q_last_cleanup,
                   q_now, q_panicked, q_ret, q_last, q_hist, notQuic>>

\* the clock advances (it is read at multiples of the blocks' lifetime)
QuicTick ==
    /\ n_conn = "Quic"
    /\ q_now < MaxTime
    /\ q_now' = q_now + QUIC_BLOCK_TTL_SECS
    /\ UNCHANGED <<n_conn, q_last_seq, q_stats, q_blocks, q_last_cleanup,
                   q_closed, q_panicked, q_ret, q_last, q_hist, notQuic>>

(***************************************************************************)
(* The stream transport: the reader tasks, the channel and recv of         *)
(* src/src/network/tcp.rs, from the state connect leaves.                  *)
(***************************************************************************)
RECURSIVE Reverse(_)
Reverse(bs) == IF bs = <<>> THEN <<>> ELSE Append(Reverse(Tail(bs)), Head(bs))

\* iN::to_be_bytes
to_be_bytes(v, n) == Reverse(to_le_bytes(v, n))

\* TcpConnection::read_packet on the bytes the socket still delivers before
\* its end: [PTS 8][LEN 4][DATA LEN], big endian
read_packet(stream, packet_type) ==
    IF Len(stream) < 12 THEN Err("Io")
    ELSE LET pts == get_int_le(Reverse(SubSeq(stream, 1, 8)))
             len == get_uint_le(Reverse(SubSeq(stream, 9, 12)))
         IN  IF len > MAX_FRAME_LEN THEN Err("Protocol")
             ELSE IF Len(stream) - 12 < len THEN Err("Io")
             ELSE Ok(Packet(packet_type, pts, 0, SubSeq(stream, 13, 12 + len)))

\* the frames a socket may carry: (pts = 0, 8 bytes), (pts = 16667, 4
\* bytes) and an empty frame of negative pts
FrameSample ==
    {[pts |-> 0, data |-> <<1, 2, 3, 4, 5, 6, 7, 8>>],
     [pts |-> 16667, data |-> <<9, 10, 11, 12>>],
     [pts |-> -1, data |-> <<>>]}

\* a frame as the device writes it: [PTS 8][LEN 4][DATA LEN], big endian
framed(frame) ==
    to_be_bytes(frame.pts, 8) \o to_be_bytes(Len(frame.data), 4) \o frame.data

NoFrame == [pts |-> 0, data |-> <<>>]

\* what a socket may deliver next: a whole frame, a frame announcing more
\* than MAX_FRAME_LEN, a frame cut short by the end of the stream, or the
\* end of the stream at a frame boundary
StreamSample ==
    {[cause |-> "frame", frame |-> f, bytes |-> framed(f)] : f \in FrameSample}
    \cup {[cause |-> "oversize", frame |-> NoFrame,
           bytes |-> to_be_bytes(0, 8) \o to_be_bytes(MAX_FRAME_LEN + 1, 4)],
          [cause |-> "cut", frame |-> NoFrame,
           bytes |-> to_be_bytes(0, 8) \o to_be_bytes(2, 4) \o <<7>>],
          [cause |-> "eof", frame |-> NoFrame, bytes |-> <<>>]}

\* what connect may meet.  video_connect, device_name, video_metadata and
\* audio_connect: "ok", "err" or "timeout"; audio_connect is "skipped" when
\* audio is not enabled; audio_codec: the codec id read from the audio
\* socket, "zero" or "nonzero", "err" or "timeout" when the read fails, "none"
\* when there is no audio socket
ConnectEnv(video_connect, device_name, video_metadata, enable_audio, audio_connect, audio_codec) ==
    [video_connect |-> video_connect, device_name |-> device_name,
     video_metadata |-> video_metadata, enable_audio |-> enable_audio,
     audio_connect |-> audio_connect, audio_codec |-> audio_codec]

ConnectEnvSample ==
    {ConnectEnv(vc, dn, vm, FALSE, "skipped", "none") :
        vc \in {"ok", "err", "timeout"}, dn \in {"ok", "err", "timeout"},
        vm \in {"ok", "err", "timeout"}}
    \cup {ConnectEnv("ok", dn, vm, TRUE, ac, "none") :
        dn \in {"ok", "err", "timeout"}, vm \in {"ok", "err", "timeout"},
        ac \in {"err", "timeout"}}
    \cup {ConnectEnv("ok", dn, vm, TRUE, "ok", codec) :
        dn \in {"ok", "err", "timeout"}, vm \in {"ok", "err", "timeout"},
        codec \in {"zero", "nonzero", "err", "timeout"}}

\* audio_connect_future: is there an audio reader
audio_connect_future(env) == env.enable_audio /\ env.audio_connect = "ok"

\* audio_metadata_future that hands the reader on whatever codec id it read
audio_metadata_keeping_reader(env, audio_reader) ==
    audio_reader /\ env.audio_codec \in {"zero", "nonzero"}

\* audio_metadata_future: is there still an audio reader
audio_metadata_future(env, audio_reader) ==
    audio_reader /\ env.audio_codec = "nonzero"

\* the reader tasks connect spawns
reader_tasks(audio_reader) ==
    [k \in {Video, Audio} |->
        IF k = Video \/ audio_reader THEN "running" ELSE "none"]

\* connect that needs the audio socket when audio is enabled
connect_requiring_audio(env) ==
    IF env.video_connect = "timeout" THEN Err("Timeout")
    ELSE IF env.video_connect = "err" THEN Err("ConnectionFailed")
    ELSE IF env.device_name = "timeout" THEN Err("Timeout")
    ELSE IF env.device_name = "err" THEN Err("ConnectionFailed")
    ELSE IF env.enable_audio /\ env.audio_connect # "ok" THEN Err("ConnectionFailed")
    ELSE IF env.video_metadata # "ok" THEN Err("ConnectionFailed")
    ELSE [ok |-> TRUE,
          tasks |-> reader_tasks(audio_metadata_future(env, audio_connect_future(env)))]

\* TcpConnection::connect: the error it returns, or the reader tasks it has
\* spawned
connect(env) ==
    IF env.video_connect = "timeout" THEN Err("Timeout")
    ELSE IF env.video_connect = "err" THEN Err("ConnectionFailed")
    ELSE IF env.device_name = "timeout" THEN Err("Timeout")
    ELSE IF env.device_name = "err" THEN Err("ConnectionFailed")
    ELSE IF env.video_metadata # "ok" THEN Err("ConnectionFailed")
    ELSE [ok |-> TRUE,
          tasks |-> reader_tasks(audio_metadata_future(env, audio_connect_future(env)))]

\* Sender::send that puts the entry in front of the queued ones
mpsc_send_front(chan, item) == <<item>> \o chan

\* Sender::send on the channel's queue
mpsc_send(chan, item) == Append(chan, item)

\* Sender::send that gives up when the queue is full, as try_send does
send_outcome_dropping(chan, rx_closed) ==
    IF rx_closed \/ Len(chan) >= CHANNEL_CAPACITY THEN "closed" ELSE "sent"

\* Sender::send on the bounded channel: the entry is queued ("sent"), the
\* receiver is closed and send returns an error ("closed"), or the queue
\* holds CHANNEL_CAPACITY entries and send waits ("blocked")
send_outcome(chan, rx_closed) ==
    IF rx_closed THEN "closed"
    ELSE IF Len(chan) < CHANNEL_CAPACITY THEN "sent" ELSE "blocked"

\* a reader task that leaves its loop only when send fails
reader_task_keeps_reading(res, outcome) ==
    IF outcome = "blocked" THEN "sending"
    ELSE IF outcome = "sent" THEN "running" ELSE "done"

\* the reader task's loop after read_packet returned res and send ended in
\* outcome: it reads on after a packet was queued and breaks otherwise
reader_task_after(res, outcome) ==
    IF outcome = "blocked" THEN "sending"
    ELSE IF res.ok /\ outcome = "sent" THEN "running" ELSE "done"

TcpHistInit ==
    [env |-> ConnectEnv("none", "none", "none", FALSE, "none", "none"),
     connect |-> NoResult,
     wire |-> [k \in {Video, Audio} |-> <<>>],
     got |-> [k \in PacketTypes |-> <<>>],
     meta |-> <<>>,
     sent |-> 0,
     hit |-> [k \in {Video, Audio} |-> 0],
     errs |-> [k \in {Video, Audio} |-> 0],
     after_err |-> [k \in {Video, Audio} |-> 0],
     dropped |-> [k \in {Video, Audio} |-> 0],
     recvs |-> 0,
     ret_serial |-> 0,
     ret_from |-> 0,
     ret_awaited |-> {},
     close_sent |-> -1,
     ret_closed |-> FALSE,
     ret_cause |-> "none",
     first_eof |-> NoResult]

TcpInit ==
    /\ t_chan = <<>>
    /\ t_task = [k \in {Video, Audio} |-> "none"]
    /\ t_pending = [k \in {Video, Audio} |-> None]
    /\ t_rx_closed = FALSE
    /\ t_stats = [packets_received |-> 0, bytes_received |-> 0]
    /\ t_reads = 0
    /\ t_ret = NoResult
    /\ t_hist = TcpHistInit

\* connect returns: an error, or the transport with the video reader task
\* spawned, and the audio reader task if there is an audio reader
TcpConnectFrom(envs) ==
    /\ n_conn = "none"
    /\ \E env \in envs :
       \E res \in {connect(env)} :
          /\ n_conn' = IF res.ok THEN "Tcp" ELSE "Failed"
          /\ t_task' = IF res.ok THEN res.tasks ELSE t_task
          /\ t_hist' = [t_hist EXCEPT !.env = env, !.connect = res]
    /\ UNCHANGED <<t_chan, t_pending, t_rx_closed, t_stats, t_reads, t_ret>>
    /\ UNCHANGED <<wireVars, fecVars, syncVars, playVars, bitrateVars, jitVars, negVars, logVars, q_last_seq, q_stats, q_blocks,
                   q_last_cleanup, q_now, q_closed, q_panicked, q_ret, q_last,
                   q_hist>>

TcpConnect == TcpConnectFrom(ConnectEnvSample) /\ UNCHANGED sessVars

\* the history after the task of a kind has called send with an entry
TcpSendHistory(hist, kind, item, outcome) ==
    IF outcome = "sent"
    THEN [hist EXCEPT
            !.meta = mpsc_send(@, [cause |-> item.cause, from |-> kind,
                                   serial |-> hist.sent + 1]),
            !.sent = @ + 1,
            !.errs[kind] = IF item.res.ok THEN @ ELSE @ + 1,
            !.after_err[kind] = IF hist.errs[kind] > 0 THEN @ + 1 ELSE @]
    ELSE IF outcome = "closed"
    THEN [hist EXCEPT !.dropped[kind] = @ + 1]
    ELSE hist

\* the send of a reader task: the entry is queued, or dropped when the
\* receiver is closed, or the task waits with it while the channel is full
TcpSendStep(kind, item, hist) ==
    LET outcome == send_outcome(t_chan, t_rx_closed)
    IN  /\ t_chan' = IF outcome = "sent" THEN mpsc_send(t_chan, item.res) ELSE t_chan
        /\ t_task' = [t_task EXCEPT ![kind] = reader_task_after(item.res, outcome)]
        /\ t_pending' = [t_pending EXCEPT ![kind] =
                            IF outcome = "blocked" THEN Some(item) ELSE None]
        /\ t_hist' = TcpSendHistory(hist, kind, item, outcome)

\* one turn of a reader task's loop: read_packet, then send the result
TcpReadFrom(streams, max_reads) ==
    /\ n_conn = "Tcp"
    /\ \E kind \in {Video, Audio}, stream \in streams :
          /\ t_task[kind] = "running"
          /\ t_reads < max_reads
          /\ \E res \in {read_packet(stream.bytes, kind)} :
                TcpSendStep(kind, [res |-> res, cause |-> stream.cause],
                            [t_hist EXCEPT
                               !.wire[kind] = IF stream.cause = "frame"
                                              THEN Append(@, stream.frame) ELSE @,
                               !.hit[kind] = IF res.ok THEN @ ELSE @ + 1])
          /\ t_reads' = t_reads + 1
    /\ UNCHANGED <<t_rx_closed, t_stats, t_ret, notTcp>>

TcpRead == TcpReadFrom(StreamSample, MaxFrames)

\* a reader task blocked in send goes on: the channel has room again, or
\* the receiver has been closed
TcpSend ==
    /\ n_conn = "Tcp"
    /\ \E kind \in {Video, Audio} :
          /\ t_task[kind] = "sending"
          /\ send_outcome(t_chan, t_rx_closed) # "blocked"
          /\ TcpSendStep(kind, t_pending[kind][1], t_hist)
    /\ UNCHANGED <<t_rx_closed, t_stats, t_reads, t_ret, notTcp>>

\* the kinds whose reader task has ended and whose terminal error waits in
\* the channel
TerminalErrorsWaiting ==
    {k \in {Video, Audio} :
        /\ t_task[k] = "done"
        /\ \E i \in 1..Len(t_chan) : ~t_chan[i].ok /\ t_hist.meta[i].from = k}

\* TcpConnection::recv, when packet_rx.recv() completes: with the oldest
\* entry, or with None once the channel is empty and closed or without senders
TcpRecvStep ==
    /\ n_conn = "Tcp"
    /\ IF t_chan # <<>>
       THEN /\ t_chan' = Tail(t_chan)
            /\ t_ret' = Head(t_chan)
            /\ t_stats' = IF Head(t_chan).ok
                          THEN [packets_received |-> t_stats.packets_received + 1,
                                bytes_received |-> t_stats.bytes_received
                                                     + Len(Head(t_chan).packet.data)]
                          ELSE t_stats
            /\ t_hist' = [t_hist EXCEPT
                            !.got = IF Head(t_chan).ok
                                    THEN [@ EXCEPT ![Head(t_chan).packet.packet_type] =
                                             Append(@, Head(t_chan).packet)]
                                    ELSE @,
                            !.meta = Tail(@),
                            !.recvs = @ + 1,
                            !.ret_serial = Head(t_hist.meta).serial,
                            !.ret_from = Head(t_hist.meta).from,
                            !.ret_awaited = TerminalErrorsWaiting,
                            !.ret_closed = t_rx_closed,
                            !.ret_cause = Head(t_hist.meta).cause,
                            !.first_eof = IF Head(t_hist.meta).cause = "eof" /\ @ = NoResult
                                          THEN Head(t_chan) ELSE @]
       ELSE /\ t_rx_closed \/ \A k \in {Video, Audio} : t_task[k] \in {"done", "none"}
            /\ t_ret # Err("ConnectionClosed")
            /\ t_ret' = Err("ConnectionClosed")
            /\ t_hist' = [t_hist EXCEPT !.ret_cause = "closed", !.ret_serial = 0,
                                        !.ret_from = 0, !.ret_awaited = {},
                                        !.ret_closed = t_rx_closed]
            /\ UNCHANGED <<t_chan, t_stats>>
    /\ UNCHANGED <<t_task, t_pending, t_reads>>

TcpRecv == TcpRecvStep /\ UNCHANGED <<t_rx_closed, notTcp>>

\* TcpConnection::close
TcpClose ==
    /\ n_conn = "Tcp"
    /\ ~t_rx_closed
    /\ t_rx_closed' = TRUE
    /\ t_hist' = [t_hist EXCEPT !.close_sent = t_hist.sent]
    /\ UNCHANGED <<t_chan, t_task, t_pending, t_stats, t_reads, t_ret, notTcp>>

\* connect of a session without audio
TcpConnectVideoOnly ==
    /\ TcpConnectFrom({ConnectEnv("ok", "ok", "ok", FALSE, "skipped", "none")})
    /\ UNCHANGED sessVars

\* what the video socket delivers in a burst: frame after frame
BurstSample ==
    {[cause |-> "frame", frame |-> f, bytes |-> framed(f)] :
        f \in {[pts |-> 16667, data |-> <<9, 10, 11, 12>>]}}

\* one turn of the reader task's loop during a burst
TcpReadBurst == TcpReadFrom(BurstSample, MaxBurst)

NextBackpressure ==
    \/ TcpConnectVideoOnly
    \/ TcpReadBurst
    \/ TcpSend
    \/ TcpRecv

NextTransport ==
    \/ QuicConnect
    \/ QuicRecv
    \/ QuicRecvFails
    \/ QuicClose
    \/ QuicTick
    \/ TcpConnect
    \/ TcpRead
    \/ TcpRecv
    \/ TcpClose

(***************************************************************************)
(* The session: the receive loop of run_with_connection and the window's   *)
(* CloseRequested handler (src/src/main.rs), with decode of the video      *)
(* decoder (src/src/video/decoder.rs), over the stream transport.          *)
(***************************************************************************)
\* what the codec does with one submission: a frame comes out, it wants
\* more data (EAGAIN), send_packet fails, receive_frame fails, or the
\* conversion of the frame fails
DecodeOutcomes == {"frame", "again", "send_err", "receive_err", "convert_err"}

\* HardwareVideoDecoder::decode: the scratch buffer it leaves, the bytes it
\* submitted to the codec and what it returns
decode(packet_buffer, data, outcome) ==
    LET buffer == packet_buffer \o data
    IN  IF outcome = "send_err"
        THEN [packet_buffer |-> buffer, submitted |-> buffer, ret |-> "Err"]
        ELSE [packet_buffer |-> <<>>, submitted |-> buffer,
              ret |-> IF outcome = "frame" THEN "Frame"
                      ELSE IF outcome = "again" THEN "None" ELSE "Err"]

\* what the session may meet at connect: video only, video and audio, or a
\* refused video connect
SessionEnvSample ==
    {ConnectEnv("ok", "ok", "ok", FALSE, "skipped", "none"),
     ConnectEnv("ok", "ok", "ok", TRUE, "ok", "nonzero"),
     ConnectEnv("err", "none", "none", FALSE, "skipped", "none")}

SessionHistInit ==
    [checked |-> FALSE, iterations |-> 0, exit_cause |-> "none",
     blocked_after_stop |-> FALSE,
     decodes |-> 0, scratch |-> <<>>, data |-> <<>>, submitted |-> <<>>,
     ret |-> "none", prev_ret |-> "none", continued |-> TRUE]

SessionInit ==
    /\ m_running = TRUE
    /\ m_pc = "idle"
    /\ m_ui = "open"
    /\ m_dec = <<>>
    /\ m_hist = SessionHistInit

\* the loop is left: run_with_connection returns and the connection is
\* dropped, its receiver with it
SessionExit(cause) ==
    /\ m_pc' = "exited"
    /\ t_rx_closed' = TRUE
    /\ m_hist' = [m_hist EXCEPT !.exit_cause = cause]

\* run_with_connection up to its loop: connect, then the decoders
SessionStart ==
    /\ m_pc = "idle"
    /\ TcpConnectFrom(SessionEnvSample)
    /\ m_pc' = IF n_conn' = "Tcp" THEN "check" ELSE "exited"
    /\ m_hist' = [m_hist EXCEPT !.exit_cause =
                     IF n_conn' = "Tcp" THEN @ ELSE "connect"]
    /\ UNCHANGED <<m_running, m_ui, m_dec>>

\* the top of the loop: the flag is read, and the loop is left if it is
\* false; otherwise recv() is called
SessionCheck ==
    /\ m_pc = "check"
    /\ IF ~m_running
       THEN SessionExit("flag")
       ELSE /\ m_pc' = "recv"
            /\ m_hist' = [m_hist EXCEPT !.checked = TRUE,
                                        !.iterations = @ + 1]
            /\ UNCHANGED t_rx_closed
    /\ UNCHANGED <<m_running, m_ui, m_dec, n_conn, t_chan, t_task, t_pending,
                   t_stats, t_reads, t_ret, t_hist>>
    /\ UNCHANGED <<wireVars, fecVars, syncVars, playVars, bitrateVars, jitVars, negVars, logVars, q_last_seq,
                   q_stats, q_blocks, q_last_cleanup, q_now, q_closed,
                   q_panicked, q_ret, q_last, q_hist>>

\* the rest of an iteration, from the moment recv() completes: an error
\* ends the loop, a Video packet is decoded and its frame sent to the event
\* loop, a decode error is logged, any other packet is passed over
SessionRecv ==
    /\ m_pc = "recv"
    /\ TcpRecvStep
    /\ \E outcome \in DecodeOutcomes :
          LET ret == IF t_chan # <<>> THEN Head(t_chan) ELSE Err("ConnectionClosed")
              d   == decode(m_dec, ret.packet.data, outcome)
          IN  IF ~ret.ok
              THEN /\ outcome = "again"
                   /\ SessionExit("recv")
                   /\ UNCHANGED m_dec
              ELSE IF ret.packet.packet_type # Video
              THEN /\ outcome = "again"
                   /\ m_pc' = "check"
                   /\ m_hist' = [m_hist EXCEPT !.checked = FALSE]
                   /\ UNCHANGED <<m_dec, t_rx_closed>>
              ELSE /\ m_dec' = d.packet_buffer
                   /\ IF d.ret = "Frame" /\ m_ui = "gone"
                      THEN /\ m_pc' = "exited"
                           /\ t_rx_closed' = TRUE
                      ELSE /\ m_pc' = "check"
                           /\ UNCHANGED t_rx_closed
                   /\ m_hist' = [m_hist EXCEPT
                         !.checked = FALSE,
                         !.exit_cause = IF d.ret = "Frame" /\ m_ui = "gone"
                                        THEN "ui" ELSE @,
                         !.decodes = @ + 1,
                         !.scratch = m_dec,
                         !.data = ret.packet.data,
                         !.submitted = d.submitted,
                         !.prev_ret = m_hist.ret,
                         !.ret = d.ret,
                         !.continued = @ /\ (d.ret = "Err" => m_pc' = "check")]
    /\ UNCHANGED <<m_running, m_ui>>
    /\ UNCHANGED <<wireVars, fecVars, quicVars, syncVars, playVars, bitrateVars, jitVars,
                   negVars, logVars>>

\* the event loop's CloseRequested handler: running.store(false), then
\* target.exit()
SessionCloseRequested ==
    /\ m_ui = "open"
    /\ m_running
    /\ m_running' = FALSE
    /\ UNCHANGED <<m_pc, m_ui, m_dec, m_hist, wireVars, fecVars, quicVars, tcpVars,
                   syncVars, playVars, bitrateVars, jitVars,
                   negVars, logVars>>

\* the event loop has returned and its closure, with frame_rx, is dropped
SessionEventLoopExit ==
    /\ m_ui = "open"
    /\ ~m_running
    /\ m_ui' = "gone"
    /\ UNCHANGED <<m_running, m_pc, m_dec, m_hist, wireVars, fecVars, quicVars,
                   tcpVars, syncVars, playVars, bitrateVars, jitVars,
                   negVars, logVars>>

NextSession ==
    \/ SessionStart
    \/ TcpRead
    \/ SessionCheck
    \/ SessionRecv
    \/ SessionCloseRequested
    \/ SessionEventLoopExit

(***************************************************************************)
(* The A/V sync engine: SyncEngine of src/src/sync/mod.rs.  A buffered     *)
(* frame or chunk is its pts (an i64, in microseconds).                    *)
(***************************************************************************)
\* the presentation timestamps pushed into the engine: microseconds on the
\* device clock, from 0 to the largest i64
SyncPtsSample == {I64(0), I64(50999), I64(51000), I64(100000), I64_MAX}

\* the trimming loop removing the newest entry (pop_back) instead of the
\* oldest
RECURSIVE trim_newest(_, _)
trim_newest(buffer, max) ==
    IF Len(buffer) >= max
    THEN LET rest == trim_newest(SubSeq(buffer, 1, Len(buffer) - 1), max)
         IN  [buffer |-> rest.buffer, removed |-> rest.removed + 1]
    ELSE [buffer |-> buffer, removed |-> 0]

\* the loop of add_video_frame / add_audio_samples on a full buffer:
\* pop_front while len >= max; the buffer left and the entries removed
RECURSIVE trim(_, _)
trim(buffer, max) ==
    IF Len(buffer) >= max
    THEN LET rest == trim(Tail(buffer), max)
         IN  [buffer |-> rest.buffer, removed |-> rest.removed + 1]
    ELSE [buffer |-> buffer, removed |-> 0]

\* VecDeque::pop_front
pop_front(buffer) == IF buffer = <<>> THEN <<>> ELSE Tail(buffer)

\* the decision of sync with drift_us / 1000 rounded down instead of toward
\* zero
sync_drift_floor(video_pts, audio_pts, threshold, stats) ==
    LET drift_us == i_sub(video_pts, audio_pts)
        drift_ms == IF is_negative(drift_us.v)
                    THEN i_neg(u_div(u_add(i_neg(drift_us.v), I64(999)).v, 1000, 0))
                    ELSE u_div(drift_us.v, 1000, 0)
        s1       == [stats EXCEPT !.current_drift_ms = drift_ms]
    IN  IF i_gt(i_abs(drift_ms), I64(threshold))
        THEN IF i_gt(drift_ms, I64(0))
             THEN [overflow |-> drift_us.overflow, action |-> "DropVideoFrame",
                   stats |-> [s1 EXCEPT !.sync_corrections = @ + 1,
                                        !.video_frames_dropped = @ + 1]]
             ELSE [overflow |-> drift_us.overflow, action |-> "SkipAudioSamples",
                   stats |-> [s1 EXCEPT !.sync_corrections = @ + 1,
                                        !.audio_samples_skipped = @ + 1]]
        ELSE [overflow |-> drift_us.overflow, action |-> "Continue", stats |-> s1]

\* SyncEngine::sync past the two emptiness checks: the action returned and
\* the statistics after it.  overflow: video_pts - audio_pts left the range
\* of i64 (a panic in a build with overflow checks, else the wrapped value)
sync_drift(video_pts, audio_pts, threshold, stats) ==
    LET drift_us == i_sub(video_pts, audio_pts)
        drift_ms == i_div(drift_us.v, 1000)
        s1       == [stats EXCEPT !.current_drift_ms = drift_ms]
    IN  IF i_gt(i_abs(drift_ms), I64(threshold))
        THEN IF i_gt(drift_ms, I64(0))
             THEN [overflow |-> drift_us.overflow, action |-> "DropVideoFrame",
                   stats |-> [s1 EXCEPT !.sync_corrections = @ + 1,
                                        !.video_frames_dropped = @ + 1]]
             ELSE [overflow |-> drift_us.overflow, action |-> "SkipAudioSamples",
                   stats |-> [s1 EXCEPT !.sync_corrections = @ + 1,
                                        !.audio_samples_skipped = @ + 1]]
        ELSE [overflow |-> drift_us.overflow, action |-> "Continue", stats |-> s1]

\* sync that carries out the drop it returns
sync_consuming(video, audio, threshold, stats) ==
    IF video = <<>>
    THEN [video |-> video, audio |-> audio, stats |-> stats,
          action |-> "WaitForVideo", overflow |-> FALSE]
    ELSE IF audio = <<>>
    THEN [video |-> video, audio |-> audio, stats |-> stats,
          action |-> "WaitForAudio", overflow |-> FALSE]
    ELSE LET res == sync_drift(Head(video), Head(audio), threshold, stats)
         IN  [video |-> IF res.action = "DropVideoFrame" THEN Tail(video) ELSE video,
              audio |-> IF res.action = "SkipAudioSamples" THEN Tail(audio) ELSE audio,
              stats |-> res.stats, action |-> res.action, overflow |-> res.overflow]

\* SyncEngine::sync: the buffers and statistics after the call and the
\* action returned; the buffers are only read (is_empty, front)
sync(video, audio, threshold, stats) ==
    IF video = <<>>
    THEN [video |-> video, audio |-> audio, stats |-> stats,
          action |-> "WaitForVideo", overflow |-> FALSE]
    ELSE IF audio = <<>>
    THEN [video |-> video, audio |-> audio, stats |-> stats,
          action |-> "WaitForAudio", overflow |-> FALSE]
    ELSE LET res == sync_drift(Head(video), Head(audio), threshold, stats)
         IN  [video |-> video, audio |-> audio, stats |-> res.stats,
              action |-> res.action, overflow |-> res.overflow]

\* SyncStats::default()
SyncStatsDefault ==
    [video_frames_dropped |-> 0, audio_samples_skipped |-> 0,
     sync_corrections |-> 0, current_drift_ms |-> I64(0)]

\* the calls of the unit test test_sync_engine, in order
SyncScript ==
    <<[op |-> "add_video_frame", pts |-> I64(0)],
      [op |-> "add_audio_samples", pts |-> I64(0)],
      [op |-> "sync", pts |-> I64(0)],
      [op |-> "add_video_frame", pts |-> I64(100000)],
      [op |-> "sync", pts |-> I64(0)]>>

\* SyncEngine::new(sync_threshold_ms, max_video_buffer, max_audio_buffer)
SyncInit ==
    /\ s_cfg \in [sync_threshold_ms : {SYNC_THRESHOLD_MS},
                  max_video_buffer : 1..MaxVideoBuffer,
                  max_audio_buffer : 1..MaxAudioBuffer]
    /\ s_video = <<>>
    /\ s_audio = <<>>
    /\ s_stats = SyncStatsDefault
    /\ s_panicked = FALSE
    /\ s_ret = "none"
    /\ s_last = [op |-> "none", pts |-> I64(0), video |-> <<>>, audio |-> <<>>,
                 stats |-> SyncStatsDefault]
    /\ s_hist = [calls |-> 0, script |-> 0]

SyncIdle ==
    /\ s_cfg = [sync_threshold_ms |-> SYNC_THRESHOLD_MS, max_video_buffer |-> 1,
                max_audio_buffer |-> 1]
    /\ s_video = <<>>
    /\ s_audio = <<>>
    /\ s_stats = SyncStatsDefault
    /\ s_panicked = FALSE
    /\ s_ret = "none"
    /\ s_last = [op |-> "none", pts |-> I64(0), video |-> <<>>, audio |-> <<>>,
                 stats |-> SyncStatsDefault]
    /\ s_hist = [calls |-> 0, script |-> 0]

\* the bookkeeping of one call: the state the call found, and how far the
\* calls so far follow SyncScript (-1: they do not)
SyncCall(op, pts) ==
    /\ ~s_panicked
    /\ s_hist.calls < MaxSyncCalls
    /\ s_last' = [op |-> op, pts |-> pts, video |-> s_video, audio |-> s_audio,
                  stats |-> s_stats]
    /\ s_hist' = [calls |-> s_hist.calls + 1,
                  script |-> IF /\ s_hist.script \in 0..(Len(SyncScript) - 1)
                                /\ SyncScript[s_hist.script + 1] = [op |-> op, pts |-> pts]
                             THEN s_hist.script + 1 ELSE -1]

\* SyncEngine::add_video_frame
AddVideoFrame ==
    /\ \E pts \in SyncPtsSample :
          /\ SyncCall("add_video_frame", pts)
          /\ \E t \in {trim(s_video, s_cfg.max_video_buffer)} :
                /\ s_video' = Append(t.buffer, pts)
                /\ s_stats' = [s_stats EXCEPT !.video_frames_dropped = @ + t.removed]
    /\ UNCHANGED <<s_cfg, s_audio, s_panicked, s_ret, notSync>>

\* SyncEngine::add_audio_samples
AddAudioSamples ==
    /\ \E pts \in SyncPtsSample :
          /\ SyncCall("add_audio_samples", pts)
          /\ \E t \in {trim(s_audio, s_cfg.max_audio_buffer)} :
                /\ s_audio' = Append(t.buffer, pts)
                /\ s_stats' = [s_stats EXCEPT !.audio_samples_skipped = @ + t.removed]
    /\ UNCHANGED <<s_cfg, s_video, s_panicked, s_ret, notSync>>

\* SyncEngine::sync
Sync ==
    /\ SyncCall("sync", I64(0))
    /\ \E res \in {sync(s_video, s_audio, s_cfg.sync_threshold_ms, s_stats)} :
       \E panic \in (IF res.overflow THEN BOOLEAN ELSE {FALSE}) :
          /\ s_panicked' = panic
          /\ s_ret' = IF panic THEN "none" ELSE res.action
          /\ s_stats' = IF panic THEN s_stats ELSE res.stats
          /\ s_video' = res.video
          /\ s_audio' = res.audio
    /\ UNCHANGED <<s_cfg, notSync>>

\* SyncEngine::pop_video_frame and SyncEngine::drop_video_frame
PopVideoFrame ==
    /\ \E op \in {"pop_video_frame", "drop_video_frame"} : SyncCall(op, I64(0))
    /\ s_video' = pop_front(s_video)
    /\ UNCHANGED <<s_cfg, s_audio, s_stats, s_panicked, s_ret, notSync>>

\* SyncEngine::pop_audio_samples and SyncEngine::drop_audio_samples
PopAudioSamples ==
    /\ \E op \in {"pop_audio_samples", "drop_audio_samples"} : SyncCall(op, I64(0))
    /\ s_audio' = pop_front(s_audio)
    /\ UNCHANGED <<s_cfg, s_video, s_stats, s_panicked, s_ret, notSync>>

\* SyncEngine::reset
SyncReset ==
    /\ SyncCall("reset", I64(0))
    /\ s_video' = <<>>
    /\ s_audio' = <<>>
    /\ s_stats' = SyncStatsDefault
    /\ UNCHANGED <<s_cfg, s_panicked, s_ret, notSync>>

\* The add calls one loop iteration at a time, for every capacity a usize
\* can be given from 0 up.  s_last also holds the position of the call in
\* progress: pc, the iterations of its loop so far (steps) and the entries
\* pop_front has returned to it (removed).
TrimInit ==
    /\ s_cfg \in [sync_threshold_ms : {SYNC_THRESHOLD_MS},
                  max_video_buffer : 0..MaxVideoBuffer,
                  max_audio_buffer : 0..MaxAudioBuffer]
    /\ s_video = <<>>
    /\ s_audio = <<>>
    /\ s_stats = SyncStatsDefault
    /\ s_panicked = FALSE
    /\ s_ret = "none"
    /\ s_last = [op |-> "none", pts |-> I64(0), video |-> <<>>, audio |-> <<>>,
                 stats |-> SyncStatsDefault, pc |-> "idle", steps |-> 0,
                 removed |-> 0]
    /\ s_hist = [calls |-> 0, script |-> -1]

\* add_video_frame or add_audio_samples is called
AddEnter ==
    /\ s_last.pc = "idle"
    /\ s_hist.calls < MaxTrimCalls
    /\ \E op \in {"add_video_frame", "add_audio_samples"}, pts \in SyncPtsSample :
          s_last' = [op |-> op, pts |-> pts, video |-> s_video, audio |-> s_audio,
                     stats |-> s_stats, pc |-> "trimming", steps |-> 0,
                     removed |-> 0]
    /\ s_hist' = [s_hist EXCEPT !.calls = @ + 1]
    /\ UNCHANGED <<s_cfg, s_video, s_audio, s_stats, s_panicked, s_ret, notSync>>

\* one iteration of while self.video_buffer.len() >= self.max_video_buffer:
\* pop_front(), which returns None on an empty buffer, and the counter += 1
TrimVideoStep ==
    /\ s_last.pc = "trimming" /\ s_last.op = "add_video_frame"
    /\ Len(s_video) >= s_cfg.max_video_buffer
    /\ s_last.steps < MaxTrimSteps
    /\ s_video' = pop_front(s_video)
    /\ s_stats' = [s_stats EXCEPT !.video_frames_dropped = @ + 1]
    /\ s_last' = [s_last EXCEPT !.steps = @ + 1,
                                !.removed = IF s_video = <<>> THEN @ ELSE @ + 1]
    /\ UNCHANGED <<s_cfg, s_audio, s_panicked, s_ret, s_hist, notSync>>

\* one iteration of while self.audio_buffer.len() >= self.max_audio_buffer
TrimAudioStep ==
    /\ s_last.pc = "trimming" /\ s_last.op = "add_audio_samples"
    /\ Len(s_audio) >= s_cfg.max_audio_buffer
    /\ s_last.steps < MaxTrimSteps
    /\ s_audio' = pop_front(s_audio)
    /\ s_stats' = [s_stats EXCEPT !.audio_samples_skipped = @ + 1]
    /\ s_last' = [s_last EXCEPT !.steps = @ + 1,
                                !.removed = IF s_audio = <<>> THEN @ ELSE @ + 1]
    /\ UNCHANGED <<s_cfg, s_video, s_panicked, s_ret, s_hist, notSync>>

\* the loop's condition is false: push_back and return
AddVideoPush ==
    /\ s_last.pc = "trimming" /\ s_last.op = "add_video_frame"
    /\ ~(Len(s_video) >= s_cfg.max_video_buffer)
    /\ s_video' = Append(s_video, s_last.pts)
    /\ s_last' = [s_last EXCEPT !.pc = "idle"]
    /\ UNCHANGED <<s_cfg, s_audio, s_stats, s_panicked, s_ret, s_hist, notSync>>

AddAudioPush ==
    /\ s_last.pc = "trimming" /\ s_last.op = "add_audio_samples"
    /\ ~(Len(s_audio) >= s_cfg.max_audio_buffer)
    /\ s_audio' = Append(s_audio, s_last.pts)
    /\ s_last' = [s_last EXCEPT !.pc = "idle"]
    /\ UNCHANGED <<s_cfg, s_video, s_stats, s_panicked, s_ret, s_hist, notSync>>

NextTrim ==
    \/ AddEnter
    \/ TrimVideoStep
    \/ TrimAudioStep
    \/ AddVideoPush
    \/ AddAudioPush

NextSync ==
    \/ AddVideoFrame
    \/ AddAudioSamples
    \/ Sync
    \/ PopVideoFrame
    \/ PopAudioSamples
    \/ SyncReset

(***************************************************************************)
(* The playout driver (spec.md 4.5): after the pushes it repeats the sync  *)
(* step and consumes each returned action, drop_video_frame on             *)
(* DropVideoFrame and drop_audio_samples on SkipAudioSamples, until        *)
(* Continue or a wait.  The repository has no caller of SyncEngine::sync,  *)
(* so the loop is taken from spec.md; every step of it is the engine's     *)
(* code.                                                                   *)
(***************************************************************************)
\* the head-of-line drift is defined and sync finds it within the threshold
drift_within(video, audio, threshold) ==
    /\ video # <<>>
    /\ audio # <<>>
    /\ sync_drift(Head(video), Head(audio), threshold, SyncStatsDefault).action = "Continue"

\* pts is not below the last pts pushed to the buffer
pts_non_decreasing(buffer, pts) ==
    IF buffer = <<>> THEN TRUE ELSE ~i_gt(buffer[Len(buffer)], pts)

PlayoutHistInit ==
    [pushes |-> 0, both |-> FALSE, within |-> FALSE, steps |-> 0, behind |-> FALSE]

PlayoutInit ==
    /\ d_pc = "push"
    /\ d_hist = PlayoutHistInit

PlayoutIdle ==
    /\ d_pc = "idle"
    /\ d_hist = PlayoutHistInit

\* SyncEngine::add_video_frame, called by the source of the pushes
PlayoutPushVideo ==
    /\ d_pc = "push"
    /\ d_hist.pushes < MaxPushes
    /\ \E pts \in SyncPtsSample :
          /\ pts_non_decreasing(s_video, pts)
          /\ \E t \in {trim(s_video, s_cfg.max_video_buffer)} :
                /\ s_video' = Append(t.buffer, pts)
                /\ s_stats' = [s_stats EXCEPT !.video_frames_dropped = @ + t.removed]
    /\ d_hist' = [d_hist EXCEPT !.pushes = @ + 1]
    /\ UNCHANGED <<d_pc, s_cfg, s_audio, s_panicked, s_ret, s_last, s_hist, notPlayout>>

\* SyncEngine::add_audio_samples, called by the source of the pushes
PlayoutPushAudio ==
    /\ d_pc = "push"
    /\ d_hist.pushes < MaxPushes
    /\ \E pts \in SyncPtsSample :
          /\ pts_non_decreasing(s_audio, pts)
          /\ \E t \in {trim(s_audio, s_cfg.max_audio_buffer)} :
                /\ s_audio' = Append(t.buffer, pts)
                /\ s_stats' = [s_stats EXCEPT !.audio_samples_skipped = @ + t.removed]
    /\ d_hist' = [d_hist EXCEPT !.pushes = @ + 1]
    /\ UNCHANGED <<d_pc, s_cfg, s_video, s_panicked, s_ret, s_last, s_hist, notPlayout>>

\* the pushes are over and the driver starts
PlayoutStart ==
    /\ d_pc = "push"
    /\ d_pc' = "sync"
    /\ d_hist' = [d_hist EXCEPT
                     !.both = s_video # <<>> /\ s_audio # <<>>,
                     !.within = drift_within(s_video, s_audio, s_cfg.sync_threshold_ms),
                     \* an entry of the other stream lies within the threshold
                     \* of the head of the stream that is behind
                     !.behind = \/ /\ s_audio # <<>>
                                   /\ \E i \in 1..Len(s_video) :
                                         drift_within(<<s_video[i]>>, s_audio,
                                                      s_cfg.sync_threshold_ms)
                                \/ /\ s_video # <<>>
                                   /\ \E i \in 1..Len(s_audio) :
                                         drift_within(s_video, <<s_audio[i]>>,
                                                      s_cfg.sync_threshold_ms)]
    /\ UNCHANGED <<syncVars, notPlayout>>

\* what SyncEngine::sync does with the buffers and statistics given
sync_step(video, audio, threshold, stats) ==
    IF video = <<>>
    THEN [overflow |-> FALSE, action |-> "WaitForVideo", stats |-> stats]
    ELSE IF audio = <<>>
    THEN [overflow |-> FALSE, action |-> "WaitForAudio", stats |-> stats]
    ELSE sync_drift(Head(video), Head(audio), threshold, stats)

\* one sync step of the driver: SyncEngine::sync
PlayoutSync ==
    /\ d_pc = "sync"
    /\ \E res \in {sync_step(s_video, s_audio, s_cfg.sync_threshold_ms, s_stats)} :
       \E panic \in (IF res.overflow THEN BOOLEAN ELSE {FALSE}) :
          /\ s_panicked' = panic
          /\ s_ret' = IF panic THEN "none" ELSE res.action
          /\ s_stats' = IF panic THEN s_stats ELSE res.stats
          /\ d_pc' = IF ~panic /\ res.action \in {"DropVideoFrame", "SkipAudioSamples"}
                     THEN "consume" ELSE "done"
    /\ d_hist' = [d_hist EXCEPT !.steps = @ + 1]
    /\ UNCHANGED <<s_cfg, s_video, s_audio, s_last, s_hist, notPlayout>>

\* the driver consumes the action: SyncEngine::drop_video_frame on
\* DropVideoFrame, SyncEngine::drop_audio_samples on SkipAudioSamples
PlayoutConsume ==
    /\ d_pc = "consume"
    /\ \E video \in {IF s_ret = "DropVideoFrame" THEN pop_front(s_video) ELSE s_video},
          audio \in {IF s_ret = "DropVideoFrame" THEN s_audio ELSE pop_front(s_audio)} :
          /\ s_video' = video
          /\ s_audio' = audio
          /\ d_hist' = [d_hist EXCEPT
                           !.within = @ \/ drift_within(video, audio,
                                                        s_cfg.sync_threshold_ms)]
    /\ d_pc' = "sync"
    /\ UNCHANGED <<s_cfg, s_stats, s_panicked, s_ret, s_last, s_hist, notPlayout>>

NextPlayout ==
    \/ PlayoutPushVideo
    \/ PlayoutPushAudio
    \/ PlayoutStart
    \/ PlayoutSync
    \/ PlayoutConsume

(***************************************************************************)
(* The bitrate controller (src/src/control/bitrate.rs) and the quality     *)
(* score it reads (src/src/network/mod.rs).  Times are in ms.  The f64     *)
(* statistics are fixed-point: rtt_ms in whole ms, packet_loss in          *)
(* thousandths of a percent, and a score q is held as q * QUALITY_ONE, so  *)
(* that every comparison of the code is exact on the sampled values.       *)
(***************************************************************************)
\* the score 1.0
QUALITY_ONE == 50000
\* the score 0.8 of "quality > 0.8"
QUALITY_GOOD == 40000
\* loss_threshold_percent: 2.0, in thousandths of a percent
LOSS_THRESHOLD_PERCENT == 2000

\* f64::min, f64::max and Ord::min, Ord::max on the model's numbers
min_of(a, b) == IF a < b THEN a ELSE b
max_of(a, b) == IF a > b THEN a ELSE b

\* the score without the clamps of min(1.0) and max(0.0)
quality_score_unclamped(stats) ==
    (500 - stats.rtt_ms) * 60 + (5000 - stats.packet_loss) * 4

\* NetworkStats::quality_score:
\*   rtt_score  = (1.0 - (rtt_ms / 500.0).min(1.0)).max(0.0)
\*   loss_score = (1.0 - (packet_loss / 5.0).min(1.0)).max(0.0)
\*   rtt_score * 0.6 + loss_score * 0.4
\* rtt_score is held times 500, loss_score times 5000
quality_score(stats) ==
    LET rtt_score  == max_of(500 - min_of(stats.rtt_ms, 500), 0)
        loss_score == max_of(5000 - min_of(stats.packet_loss, 5000), 0)
    IN  rtt_score * 60 + loss_score * 4

SetBitrate(v) == [msg |-> "SetBitrate", v |-> v]

\* BitrateController::new at time now
BitrateController_new(initial_bitrate, min_bitrate, max_bitrate, now) ==
    [current_bitrate |-> initial_bitrate, min_bitrate |-> min_bitrate,
     max_bitrate |-> max_bitrate, last_adjustment |-> now]

\* the multiplicative decrease rounded up instead of down
new_bitrate_rounding_up(c, stats) ==
    IF \/ stats.rtt_ms > RTT_THRESHOLD_MS
       \/ stats.packet_loss > LOSS_THRESHOLD_PERCENT
    THEN max_of(c.current_bitrate - c.current_bitrate \div 4, c.min_bitrate)
    ELSE IF quality_score(stats) > QUALITY_GOOD
    THEN min_of(c.current_bitrate + INCREASE_STEP, c.max_bitrate)
    ELSE c.current_bitrate

\* the new_bitrate of update: (current as f64 * 0.75) as u32 is the floor of
\* three quarters of current
new_bitrate(c, stats) ==
    IF \/ stats.rtt_ms > RTT_THRESHOLD_MS
       \/ stats.packet_loss > LOSS_THRESHOLD_PERCENT
    THEN max_of((c.current_bitrate * 3) \div 4, c.min_bitrate)
    ELSE IF quality_score(stats) > QUALITY_GOOD
    THEN min_of(c.current_bitrate + INCREASE_STEP, c.max_bitrate)
    ELSE c.current_bitrate

\* update that does not record the time of the adjustment
update_unstamped(c, stats, now) ==
    IF now - c.last_adjustment < ADJUSTMENT_INTERVAL_MS
    THEN [ret |-> None, c |-> c]
    ELSE LET new == new_bitrate(c, stats)
         IN  IF new # c.current_bitrate
             THEN [ret |-> Some(SetBitrate(new)),
                   c |-> [c EXCEPT !.current_bitrate = new]]
             ELSE [ret |-> None, c |-> c]

\* BitrateController::update at time now: the message returned and the
\* controller after the call
update(c, stats, now) ==
    IF now - c.last_adjustment < ADJUSTMENT_INTERVAL_MS
    THEN [ret |-> None, c |-> c]
    ELSE LET new == new_bitrate(c, stats)
         IN  IF new # c.current_bitrate
             THEN [ret |-> Some(SetBitrate(new)),
                   c |-> [c EXCEPT !.current_bitrate = new,
                                   !.last_adjustment = now]]
             ELSE [ret |-> None, c |-> c]

\* u32::clamp
clamp(v, lo, hi) == IF v < lo THEN lo ELSE IF v > hi THEN hi ELSE v

\* BitrateController::set_bitrate
set_bitrate(c, bitrate) ==
    LET clamped == clamp(bitrate, c.min_bitrate, c.max_bitrate)
    IN  IF clamped # c.current_bitrate
        THEN [ret |-> Some(SetBitrate(clamped)),
              c |-> [c EXCEPT !.current_bitrate = clamped]]
        ELSE [ret |-> None, c |-> c]

\* the arguments of BitrateController::new: (8, 2, 20) is the controller of
\* test_bitrate_adjustment
BitrateNewSample ==
    {<<8, 2, 20>>, <<2, 2, 20>>, <<20, 2, 20>>, <<5, 5, 5>>, <<0, 2, 20>>, <<100, 2, 20>>}

\* the statistics a call of update may see
BitrateStatsSample ==
    {[rtt_ms |-> r, packet_loss |-> l] :
        r \in {0, 50, 200}, l \in {0, 100, 2000}}
    \cup {[rtt_ms |-> 300, packet_loss |-> 5000], [rtt_ms |-> 201, packet_loss |-> 0],
          [rtt_ms |-> 0, packet_loss |-> 2001], [rtt_ms |-> 500, packet_loss |-> 5000],
          [rtt_ms |-> 600, packet_loss |-> 6000], [rtt_ms |-> 499, packet_loss |-> 4999]}

\* the arguments of set_bitrate
BitrateSetSample == {0, 8, 20, 30}

\* the clock advances by one of these between calls, in ms
BitrateTickSample == {100, 1000}

\* the controller as the variables hold it
BitrateController ==
    [current_bitrate |-> b_current, min_bitrate |-> b_cfg.min_bitrate,
     max_bitrate |-> b_cfg.max_bitrate, last_adjustment |-> b_last_adjustment]

\* the calls of the worked example on the controller new(8, 2, 20): update
\* at 0 and at 1100 ms with rtt 300 ms and loss 5 %, update at 2200 ms
\* with rtt 50 ms and loss 0.1 %
BitrateScript ==
    <<[now |-> 0, stats |-> [rtt_ms |-> 300, packet_loss |-> 5000]],
      [now |-> 1100, stats |-> [rtt_ms |-> 300, packet_loss |-> 5000]],
      [now |-> 2200, stats |-> [rtt_ms |-> 50, packet_loss |-> 100]]>>

BitrateHistInit == [adjusted_at |-> 0, set_at |-> -1, script |-> 0]

BitrateLastNone ==
    [op |-> "none", stats |-> [rtt_ms |-> 0, packet_loss |-> 0], bitrate |-> 0,
     now |-> 0, current_bitrate |-> 0, adjusted_at |-> 0, set_at |-> -1]

\* BitrateController::new at time 0
BitrateInit ==
    /\ \E a \in BitrateNewSample :
          /\ b_cfg = [initial_bitrate |-> a[1], min_bitrate |-> a[2], max_bitrate |-> a[3]]
          /\ b_current = BitrateController_new(a[1], a[2], a[3], 0).current_bitrate
          /\ b_last_adjustment = BitrateController_new(a[1], a[2], a[3], 0).last_adjustment
    /\ b_now = 0
    /\ b_ret = None
    /\ b_last = BitrateLastNone
    /\ b_hist = BitrateHistInit

BitrateIdle ==
    /\ b_cfg = [initial_bitrate |-> 8, min_bitrate |-> 2, max_bitrate |-> 20]
    /\ b_current = 8
    /\ b_last_adjustment = 0
    /\ b_now = 0
    /\ b_ret = None
    /\ b_last = BitrateLastNone
    /\ b_hist = BitrateHistInit

\* the state a call finds
BitrateCall(op, stats, bitrate) ==
    b_last' = [op |-> op, stats |-> stats, bitrate |-> bitrate, now |-> b_now,
               current_bitrate |-> b_current, adjusted_at |-> b_hist.adjusted_at,
               set_at |-> b_hist.set_at]

\* BitrateController::update
BitrateUpdate ==
    /\ \E stats \in BitrateStatsSample :
          /\ BitrateCall("update", stats, 0)
          /\ \E res \in {update(BitrateController, stats, b_now)} :
                /\ b_ret' = res.ret
                /\ b_current' = res.c.current_bitrate
                /\ b_last_adjustment' = res.c.last_adjustment
                /\ b_hist' =
                      [adjusted_at |-> IF res.ret # None THEN b_now ELSE b_hist.adjusted_at,
                       set_at |-> IF res.ret # None THEN b_now ELSE b_hist.set_at,
                       \* how far the calls so far follow BitrateScript
                       \* (-1: they do not)
                       script |-> IF /\ b_hist.script \in 0..(Len(BitrateScript) - 1)
                                     /\ BitrateScript[b_hist.script + 1]
                                           = [now |-> b_now, stats |-> stats]
                                  THEN b_hist.script + 1 ELSE -1]
    /\ UNCHANGED <<b_cfg, b_now, notBitrate>>

\* BitrateController::set_bitrate
BitrateSet ==
    /\ \E bitrate \in BitrateSetSample :
          /\ BitrateCall("set_bitrate", [rtt_ms |-> 0, packet_loss |-> 0], bitrate)
          /\ \E res \in {set_bitrate(BitrateController, bitrate)} :
                /\ b_ret' = res.ret
                /\ b_current' = res.c.current_bitrate
                /\ b_last_adjustment' = res.c.last_adjustment
    /\ b_hist' = [b_hist EXCEPT !.script = -1]
    /\ UNCHANGED <<b_cfg, b_now, notBitrate>>

\* time passes between two calls
BitrateTick ==
    /\ \E d \in BitrateTickSample :
          /\ b_now + d <= MaxBitrateTime
          /\ b_now' = b_now + d
    /\ UNCHANGED <<b_cfg, b_current, b_last_adjustment, b_ret, b_last, b_hist, notBitrate>>

NextBitrate ==
    \/ BitrateUpdate
    \/ BitrateSet
    \/ BitrateTick

(***************************************************************************)
(* The audio jitter buffer: JitterBuffer of src/src/audio/player.rs.  A    *)
(* sample is a number; the samples pushed are numbered 1, 2, 3, ... in the  *)
(* order they are pushed, so that a sample is older than another exactly   *)
(* when its number is lower, and 0 is the silence pop_samples pads with.   *)
(***************************************************************************)
notJitter == <<wireVars, fecVars, quicVars, tcpVars, syncVars, playVars, bitrateVars, sessVars, negVars, logVars>>

\* JitterBuffer::new
JitterBuffer_new(max_size_ms, sample_rate, channels) ==
    [buffer |-> <<>>,
     current_size_samples |-> 0,
     max_size_samples |-> ((max_size_ms * sample_rate) \div 1000) * channels]

\* the samples held in the chunks of a buffer, oldest first
RECURSIVE Flat(_)
Flat(buffer) == IF buffer = <<>> THEN <<>> ELSE Head(buffer) \o Flat(Tail(buffer))

\* the trimming loop of push that removes the newest chunk
RECURSIVE push_trim_newest(_)
push_trim_newest(jb) ==
    IF jb.current_size_samples > jb.max_size_samples /\ jb.buffer # <<>>
    THEN push_trim_newest(
            [buffer |-> SubSeq(jb.buffer, 1, Len(jb.buffer) - 1),
             current_size_samples |->
                 jb.current_size_samples - Len(jb.buffer[Len(jb.buffer)]),
             max_size_samples |-> jb.max_size_samples])
    ELSE jb

\* the trimming loop of push that does not count what it removes
RECURSIVE push_trim_uncounted(_)
push_trim_uncounted(jb) ==
    IF Len(Flat(jb.buffer)) > jb.max_size_samples /\ jb.buffer # <<>>
    THEN push_trim_uncounted(
            [buffer |-> Tail(jb.buffer),
             current_size_samples |-> jb.current_size_samples,
             max_size_samples |-> jb.max_size_samples])
    ELSE jb

\* JitterBuffer::push, the loop: while current_size_samples >
\* max_size_samples && !buffer.is_empty() { pop_front, subtract its length }
RECURSIVE push_trim(_)
push_trim(jb) ==
    IF jb.current_size_samples > jb.max_size_samples /\ jb.buffer # <<>>
    THEN push_trim(
            [buffer |-> Tail(jb.buffer),
             current_size_samples |->
                 jb.current_size_samples - Len(Head(jb.buffer)),
             max_size_samples |-> jb.max_size_samples])
    ELSE jb

\* JitterBuffer::push: the buffer after the call
JitterBuffer_push(jb, samples) ==
    push_trim([buffer |-> Append(jb.buffer, samples),
               current_size_samples |-> jb.current_size_samples + Len(samples),
               max_size_samples |-> jb.max_size_samples])

\* the loop of pop_samples that stops at the end of the buffer
RECURSIVE pop_loop_unpadded(_, _, _)
pop_loop_unpadded(buffer, samples, count) ==
    IF Len(samples) >= count \/ buffer = <<>>
    THEN [buffer |-> buffer, samples |-> samples]
    ELSE LET audio     == Head(buffer)
             remaining == count - Len(samples)
             available == IF Len(audio) < remaining THEN Len(audio) ELSE remaining
             left      == SubSeq(audio, available + 1, Len(audio))
         IN  pop_loop_unpadded(IF left = <<>> THEN Tail(buffer)
                               ELSE <<left>> \o Tail(buffer),
                               samples \o SubSeq(audio, 1, available), count)

\* JitterBuffer::pop_samples, the loop: while samples.len() < count, drain
\* the front chunk, drop it when it is empty, pad with silence when the
\* buffer is empty
RECURSIVE pop_loop(_, _, _)
pop_loop(buffer, samples, count) ==
    IF Len(samples) >= count THEN [buffer |-> buffer, samples |-> samples]
    ELSE IF buffer = <<>>
    THEN [buffer |-> buffer, samples |-> resize(samples, count)]
    ELSE LET audio     == Head(buffer)
             remaining == count - Len(samples)
             available == IF Len(audio) < remaining THEN Len(audio) ELSE remaining
             left      == SubSeq(audio, available + 1, Len(audio))
         IN  pop_loop(IF left = <<>> THEN Tail(buffer)
                      ELSE <<left>> \o Tail(buffer),
                      samples \o SubSeq(audio, 1, available), count)

\* usize::saturating_sub
saturating_sub(a, b) == IF a < b THEN 0 ELSE a - b

\* JitterBuffer::pop_samples: the buffer after the call and the Vec returned
pop_samples(jb, count) ==
    LET res == pop_loop(jb.buffer, <<>>, count)
    IN  [jb |-> [buffer |-> res.buffer,
                 current_size_samples |->
                     saturating_sub(jb.current_size_samples, Len(res.samples)),
                 max_size_samples |-> jb.max_size_samples],
         samples |-> res.samples]

NoJitterCall == [op |-> "none", count |-> 0, ret |-> <<>>, chunk |-> <<>>,
                 prior |-> JitterBuffer_new(0, 0, 0)]

\* JitterBuffer::new(JitterMs, JitterSampleRate, JitterChannels)
JitterInit ==
    /\ j_buf = JitterBuffer_new(JitterMs, JitterSampleRate, JitterChannels)
    /\ j_pushed = [calls |-> 0, samples |-> 0]
    /\ j_last = NoJitterCall

\* AudioPlayer::play: buffer.push(audio), for a chunk of 0..MaxChunk samples
JitterPush ==
    /\ j_pushed.calls < MaxJitterPushes
    /\ \E n \in 0..MaxChunk :
          LET chunk == [i \in 1..n |-> j_pushed.samples + i]
          IN  /\ j_buf' = JitterBuffer_push(j_buf, chunk)
              /\ j_pushed' = [calls |-> j_pushed.calls + 1,
                              samples |-> j_pushed.samples + n]
              /\ j_last' = [op |-> "push", count |-> n, ret |-> <<>>,
                            chunk |-> chunk, prior |-> j_buf]
    /\ UNCHANGED notJitter

\* the output stream's callback: buffer.pop_samples(data.len())
JitterPop ==
    /\ \E count \in 0..MaxPop :
       \E res \in {pop_samples(j_buf, count)} :
          /\ j_buf' = res.jb
          /\ j_last' = [op |-> "pop", count |-> count, ret |-> res.samples,
                        chunk |-> <<>>, prior |-> j_buf]
    /\ UNCHANGED <<j_pushed, notJitter>>

NextJitter == JitterPush \/ JitterPop

(***************************************************************************)
(* The connection negotiator: ConnectionNegotiator of                      *)
(* src/src/network/negotiation.rs.                                         *)
(***************************************************************************)
notNegotiation == <<wireVars, fecVars, quicVars, tcpVars, syncVars, playVars, bitrateVars, sessVars, jitVars, logVars>>

\* the address a negotiator is given for QUIC
QuicAddr == "192.168.1.20:5000"

\* ConnectionNegotiator::new: timeout_ms is 5000 for both attempts
ConnectionNegotiator_new(quic_addr, prefer_quic) ==
    [quic_addr |-> quic_addr, prefer_quic |-> prefer_quic]

\* what the network does during one negotiation: the outcome of
\* QuicConnection::connect and whether it came within timeout_ms, the
\* environment of TcpConnection::connect and whether it came within
\* timeout_ms
NegotiationEnv(quic, quic_timer, tcp, tcp_timer) ==
    [quic |-> quic, quic_timer |-> quic_timer, tcp |-> tcp, tcp_timer |-> tcp_timer]

NegotiationEnvSample ==
    {NegotiationEnv(q, qt, env, tt) :
        q \in {"ok", "err"}, qt \in {"in_time", "elapsed"},
        env \in ConnectEnvSample, tt \in {"in_time", "elapsed"}}

\* tokio::time::timeout(..).await.context(..)?: the future's result when it
\* came in time
timeout(timer, res) == IF timer = "elapsed" THEN Err("timeout") ELSE res

\* try_quic
try_quic(neg, net) ==
    IF neg.quic_addr = None THEN Err("QUIC address not provided")
    ELSE LET conn == timeout(net.quic_timer,
                             IF net.quic = "ok" THEN [ok |-> TRUE]
                             ELSE Err("ConnectionFailed"))
         IN  IF conn.ok THEN conn ELSE Err("QUIC connection error")

\* try_tcp
try_tcp(neg, net) ==
    LET conn == timeout(net.tcp_timer, connect(net.tcp))
    IN  IF conn.ok THEN conn ELSE Err("TCP connection error")

\* the returns of ConnectionNegotiator::connect
OkQuic == [ok |-> TRUE, variant |-> "Quic"]
OkTcp == [ok |-> TRUE, variant |-> "Tcp"]

\* connect that gives up when the QUIC attempt fails
negotiate_no_fallback(neg, net) ==
    LET tried == neg.prefer_quic /\ neg.quic_addr # None
    IN  IF tried
        THEN [attempts |-> <<"quic">>,
              ret |-> IF try_quic(neg, net).ok THEN OkQuic
                      ELSE Err("All connection attempts failed")]
        ELSE [attempts |-> <<"tcp">>,
              ret |-> IF try_tcp(neg, net).ok THEN OkTcp
                      ELSE Err("All connection attempts failed")]

\* ConnectionNegotiator::connect: the attempts it made, in order, and what
\* it returned
negotiate(neg, net) ==
    LET tried == neg.prefer_quic /\ neg.quic_addr # None
        quic  == IF tried THEN try_quic(neg, net) ELSE Err("none")
        first == IF tried THEN <<"quic">> ELSE <<>>
    IN  IF quic.ok THEN [attempts |-> first, ret |-> OkQuic]
        ELSE [attempts |-> Append(first, "tcp"),
              ret |-> IF try_tcp(neg, net).ok THEN OkTcp
                      ELSE Err("All connection attempts failed")]

NegotiationInit ==
    g_neg = [pc |-> "idle", neg |-> ConnectionNegotiator_new(None, FALSE),
             net |-> <<>>, attempts |-> <<>>, ret |-> NoResult]

\* ConnectionNegotiator::new(..).connect().await
NegotiatorConnect ==
    /\ g_neg.pc = "idle"
    /\ \E quic_addr \in {None, Some(QuicAddr)}, prefer_quic \in BOOLEAN,
          net \in NegotiationEnvSample :
          LET neg == ConnectionNegotiator_new(quic_addr, prefer_quic)
              res == negotiate(neg, net)
          IN  g_neg' = [pc |-> "done", neg |-> neg, net |-> net,
                        attempts |-> res.attempts, ret |-> res.ret]
    /\ UNCHANGED notNegotiation

NextNegotiation == NegotiatorConnect

(***************************************************************************)
(* The specifications: one subsystem runs, the others stay idle.           *)
(***************************************************************************)
InitWireSpec == WireInit /\ FecInit /\ QuicInit /\ TcpInit /\ SyncIdle
    /\ PlayoutIdle /\ BitrateIdle /\ SessionInit
    /\ JitterInit /\ NegotiationInit /\ InterleaveInit
SpecWire == InitWireSpec /\ [][NextWire]_vars

InitFecSpec == FecInit /\ WireIdle /\ QuicInit /\ TcpInit /\ SyncIdle
    /\ PlayoutIdle /\ BitrateIdle /\ SessionInit
    /\ JitterInit /\ NegotiationInit /\ InterleaveInit
SpecFec == InitFecSpec /\ [][NextFec]_vars
SpecEviction == InitFecSpec /\ [][NextEviction]_vars
SpecEncoder == InitFecSpec /\ [][NextEncoder]_vars
SpecInterleave == InitFecSpec /\ [][NextInterleave]_vars
SpecFlush == InitFecSpec /\ [][NextFlush]_vars

InitTransportSpec == QuicInit /\ TcpInit /\ WireIdle /\ FecInit /\ SyncIdle
    /\ PlayoutIdle /\ BitrateIdle /\ SessionInit
    /\ JitterInit /\ NegotiationInit /\ InterleaveInit
SpecTransport == InitTransportSpec /\ [][NextTransport]_vars
SpecReorder == InitTransportSpec /\ [][NextReorder]_vars

InitSyncSpec == SyncInit /\ WireIdle /\ FecInit /\ QuicInit /\ TcpInit
    /\ PlayoutIdle /\ BitrateIdle /\ SessionInit
    /\ JitterInit /\ NegotiationInit /\ InterleaveInit
SpecSync == InitSyncSpec /\ [][NextSync]_vars

InitTrimSpec == TrimInit /\ WireIdle /\ FecInit /\ QuicInit /\ TcpInit
    /\ PlayoutIdle /\ BitrateIdle /\ SessionInit
    /\ JitterInit /\ NegotiationInit /\ InterleaveInit
SpecTrim == InitTrimSpec /\ [][NextTrim]_vars

\* the driver inside its loop moves on: PlayoutSync is enabled whenever
\* d_pc = "sync" and PlayoutConsume whenever d_pc = "consume", and they are
\* the only steps that change d_pc there
PlayoutLoopStep ==
    /\ d_pc \in {"sync", "consume"}
    /\ d_pc' \in {"sync", "consume", "done"}
    /\ d_pc' # d_pc

\* the driver's loop is the only thing running once the pushes are over, so
\* a step of it that is enabled is eventually taken
InitPlayoutSpec == SyncInit /\ PlayoutInit /\ WireIdle /\ FecInit /\ QuicInit /\ TcpInit
    /\ BitrateIdle /\ SessionInit
    /\ JitterInit /\ NegotiationInit /\ InterleaveInit
SpecPlayout == InitPlayoutSpec /\ [][NextPlayout]_vars /\ WF_d_pc(PlayoutLoopStep)

InitBitrateSpec == BitrateInit /\ WireIdle /\ FecInit /\ QuicInit /\ TcpInit /\ SyncIdle
    /\ PlayoutIdle /\ SessionInit
    /\ JitterInit /\ NegotiationInit /\ InterleaveInit
SpecBitrate == InitBitrateSpec /\ [][NextBitrate]_vars

\* the receive loop is a task of the runtime: a step of it that stays
\* enabled is eventually taken; nothing makes the device send or the user
\* close the window
SessionLoopStep == SessionStart \/ SessionCheck \/ SessionRecv

InitSessionSpec == SessionInit /\ QuicInit /\ TcpInit /\ WireIdle /\ FecInit /\ SyncIdle
    /\ PlayoutIdle /\ BitrateIdle
    /\ JitterInit /\ NegotiationInit /\ InterleaveInit
SpecSession == InitSessionSpec /\ [][NextSession]_vars /\ WF_vars(SessionLoopStep)

SpecBackpressure == InitTransportSpec /\ [][NextBackpressure]_vars

SpecJitter == InitTransportSpec /\ [][NextJitter]_vars
SpecNegotiation == InitTransportSpec /\ [][NextNegotiation]_vars

(***************************************************************************)
(* C1: Framing round-trip.  For every packet p of any of the five kinds,   *)
(* Packet::from_bytes(p.to_bytes()) succeeds and returns a packet with the *)
(* same kind, pts, seq and payload bytes as p.                             *)
(***************************************************************************)
C1_FramingRoundTrip ==
    w_pc = "parsed" =>
        /\ w_res.ok
        /\ w_res.packet.packet_type = w_pkt.packet_type
        /\ w_res.packet.pts = w_pkt.pts
        /\ w_res.packet.seq = w_pkt.seq
        /\ w_res.packet.data = w_pkt.data

\* a packet with a negative pts, a multi-byte seq and a non-empty payload has
\* been serialized and parsed back
C1_Witness ==
    /\ w_pc = "parsed"
    /\ w_pkt.pts < 0
    /\ w_pkt.seq > 255
    /\ Len(w_pkt.data) = MaxPayloadLen
    /\ w_res.ok

(***************************************************************************)
(* The packets of the sender that belong in the data slots `slots` (1-based*)
(* indexes) of block block_id, in slot order.                              *)
(***************************************************************************)
RECURSIVE OriginalPackets(_, _)
OriginalPackets(block_id, slots) ==
    IF slots = {} THEN <<>>
    ELSE LET i == CHOOSE x \in slots : \A y \in slots : x <= y
         IN  <<f_sent[block_id * DataShards + i]>>
                 \o OriginalPackets(block_id, slots \ {i})

\* the last call was an insertion that found at least data_count shards of a
\* block that was not recovered, a data shard among the missing ones, and so
\* ran the reconstruction
RecoveryTriggered == f_last.op \in {"data", "fec"} /\ f_last.rs # "none"

(***************************************************************************)
(* C2: FEC recovery.  Encoder and decoder share (k, r); the k packets of a *)
(* block have been encoded; the decoder has been given nothing but data    *)
(* packets of the block through add_data_packet(seq, data), data being the *)
(* packet's payload, and parity packets of the block through               *)
(* add_fec_packet.  At the insertion that brings the block to k shards     *)
(* with a data shard missing, the decoder returns exactly the missing data *)
(* packets, each equal to the original (kind, pts, seq, payload).          *)
(* The code does not: the parity is computed over the serialized packets.  *)
(***************************************************************************)
C2_FecRecovery ==
    (RecoveryTriggered /\ f_hist[f_last.block_id].fed \in {"nothing", "payload"})
        => f_ret = OriginalPackets(f_last.block_id, f_last.missing)

\* the same with every data packet delivered as its serialized bytes
\* (Packet::to_bytes), the form the encoder computed the parity over
FecRecoveryFromFrames ==
    (RecoveryTriggered /\ f_hist[f_last.block_id].fed \in {"nothing", "frame"})
        => f_ret = OriginalPackets(f_last.block_id, f_last.missing)

FecRecoveryFromFramesWitness ==
    /\ RecoveryTriggered
    /\ f_hist[f_last.block_id].fed = "frame"
    /\ f_ret # <<>>

C4_RecoveredBlockFrozen ==
    [][\A b \in DOMAIN f_blocks :
          (f_blocks[b].recovered /\ b \in DOMAIN f_blocks') =>
              /\ f_blocks'[b].data_shards = f_blocks[b].data_shards
              /\ f_blocks'[b].parity_shards = f_blocks[b].parity_shards]_vars

(***************************************************************************)
(* C5: datagram transport FEC recovery.  When recv has taken a Fec         *)
(* datagram carrying a parity packet of the sender's block and, with the   *)
(* data datagrams received for the block, at least k shards of the block   *)
(* have been received while a data packet of it is missing, recv returns   *)
(* a reconstructed missing data packet.  The code's process_fec returns    *)
(* None always, so recv awaits the next datagram instead.                  *)
(***************************************************************************)
C5_DatagramFecRecovery ==
    (/\ q_last.op = "datagram" /\ ~q_panicked
     /\ q_last.genuine_parity
     /\ Cardinality(q_hist.data_seen) + Cardinality(q_hist.parity_seen) >= DataShards
     /\ Cardinality(q_hist.data_seen) < DataShards)
        => /\ q_ret.ok
           /\ \E i \in 1..DataShards :
                 /\ (i - 1) \notin q_hist.data_seen
                 /\ q_ret.packet = [QuicSent[i] EXCEPT !.seq = U32(i - 1)]

(***************************************************************************)
(* C6: no packet of kind Fec is ever returned by a transport's recv(): the *)
(* datagram transport absorbs every Fec datagram, the stream transport     *)
(* produces Video and Audio packets only.                                  *)
(***************************************************************************)
C6_NoFecPacketReturned ==
    /\ q_ret.ok => q_ret.packet.packet_type # Fec
    /\ t_ret.ok => t_ret.packet.packet_type \in {Video, Audio}
    /\ \A i \in 1..Len(t_chan) :
          t_chan[i].ok => t_chan[i].packet.packet_type \in {Video, Audio}

\* a recv() of the datagram transport has absorbed a Fec datagram and then
\* returned the packet of the next datagram
C6_Witness ==
    /\ q_last.op = "datagram" /\ q_last.after_fec
    /\ q_ret.ok

\* a recv() of the stream transport has returned an Audio packet
C6_WitnessStream == t_ret.ok /\ t_ret.packet.packet_type = Audio

\* the number of packets lost between the datagram last_seq and the datagram
\* seq: seq - last_seq - 1 when seq > last_seq + 1, else 0 (as a u64)
ExpectedLost(last_seq, seq) ==
    IF u_gt(seq, last_seq)
    THEN as_u64(u_sub(u_sub(seq, last_seq).v, U32(1)).v)
    ELSE U64(0)

LossAccounted ==
    /\ ~q_panicked
    /\ q_stats.packets_lost =
          u_add(q_last.prev_lost, ExpectedLost(q_last.prev_last_seq, q_last.seq)).v
    /\ q_stats.packets_received = u_add(q_last.prev_received, U64(1)).v
    /\ q_stats.packet_loss =
          Ratio(q_stats.packets_lost,
                u_add(q_stats.packets_lost, q_stats.packets_received).v)
    /\ q_hist.example = Len(LossExample) =>
          /\ q_stats.packets_received = U64(5)
          /\ q_stats.packets_lost = U64(3)
          \* 100 * num / den = 37.5
          /\ 1000 * get_uint_le(q_stats.packet_loss.num)
                = 375 * get_uint_le(q_stats.packet_loss.den)

(***************************************************************************)
(* C7: datagram loss accounting.  From last_seq = 0, every datagram recv   *)
(* takes with seq > last_seq + 1 increases packets_lost by exactly         *)
(* seq - last_seq - 1, any other datagram leaves packets_lost unchanged,   *)
(* every datagram increases packets_received by one, and afterwards        *)
(* packet_loss = 100 * packets_lost / (packets_lost + packets_received);   *)
(* after seq = 1, 2, 4, 5, 8: received 5, lost 3, loss 37.5.               *)
(* The code computes last_seq + 1 in u32: after a datagram with            *)
(* seq = 4294967295 the sum overflows.                                     *)
(***************************************************************************)
C7_LossAccounting == q_last.op = "datagram" => LossAccounted

\* the same for every datagram taken while last_seq is below u32::MAX
LossAccountedBelowMax ==
    (q_last.op = "datagram" /\ q_last.prev_last_seq # U32_MAX) => LossAccounted

LossExampleReached == q_hist.example = Len(LossExample)

(***************************************************************************)
(* C8: on a datagram stream whose seq values are strictly increasing with  *)
(* no gap (each seq is the previous seq plus one, the first seq at most 1) *)
(* packets_lost is 0 after every recv().                                   *)
(***************************************************************************)
C8_GaplessNoLoss ==
    (n_conn = "Quic" /\ q_hist.gapless) => q_stats.packets_lost = U64(0)

\* three datagrams of a gapless stream have been received
C8_Witness ==
    /\ q_hist.gapless
    /\ q_stats.packets_received = U64(3)
    /\ q_last_seq = U32(2)
    /\ q_ret.ok

\* the decision table on the buffers video and audio for the threshold T, the
\* drift computed without a bound on its size (in nine bytes) and the
\* quotient rounded toward zero
ExpectedSyncAction(video, audio, T) ==
    IF video = <<>> THEN "WaitForVideo"
    ELSE IF audio = <<>> THEN "WaitForAudio"
    ELSE LET drift_us == u_sub(sign_extend(Head(video)), sign_extend(Head(audio))).v
             drift_ms == i_div(drift_us, 1000)
             limit    == to_le_bytes(T, 9)
         IN  IF i_gt(drift_ms, limit) THEN "DropVideoFrame"
             ELSE IF i_gt(i_neg(limit), drift_ms) THEN "SkipAudioSamples"
             ELSE "Continue"

C9_WitnessDrop == s_last.op = "sync" /\ s_ret = "DropVideoFrame"
C9_WitnessSkip == s_last.op = "sync" /\ s_ret = "SkipAudioSamples"
C9_WitnessWaitVideo == s_last.op = "sync" /\ s_ret = "WaitForVideo" /\ s_audio # <<>>
C9_WitnessWaitAudio == s_last.op = "sync" /\ s_ret = "WaitForAudio"

(***************************************************************************)
(* C10: A/V drift correction.  With the threshold 50 ms, after             *)
(* add_video_frame(pts = 0) and add_audio_samples(pts = 0) sync() returns  *)
(* Continue; when a video frame of pts = 100000 is then pushed, the audio  *)
(* head still at 0 and nothing popped in between, the next sync() returns  *)
(* DropVideoFrame.  In the code the video head is still the frame of pts 0 *)
(* and sync() returns Continue.                                            *)
(***************************************************************************)
C10_DriftCorrection ==
    /\ s_hist.script = 3 => s_ret = "Continue"
    /\ (s_hist.script = Len(SyncScript) /\ s_cfg.max_video_buffer >= 2)
          => s_ret = "DropVideoFrame"

\* the first three calls of the scenario: sync() returns Continue
DriftScenarioInSync == s_hist.script = 3 => s_ret = "Continue"


(***************************************************************************)
(* C11  Sync drift convergence.                                            *)
(***************************************************************************)
\* the driver always stops: each sync step either ends the loop or is
\* followed by a drop that shortens a buffer
PlayoutTerminates == (d_pc = "sync") ~> (d_pc = "done")

\* the sync steps of one run are bounded by the entries buffered
PlayoutStepsBounded == d_hist.steps <= MaxVideoBuffer + MaxAudioBuffer + 1

\* C11: after pushes with non-decreasing pts within each kind that left an
\* entry in both buffers, the driver that repeats sync and consumes each
\* action has, by the time it stops, passed through a state whose
\* head-of-line drift is within the threshold
C11_DriftConvergence == (d_pc = "done" /\ d_hist.both) => d_hist.within

\* the driver stopped on a wait without ever seeing the drift within the
\* threshold, although an entry of the stream it dropped from was within
\* the threshold of the other stream's head
PlayoutMissedAlignment ==
    /\ d_pc = "done"
    /\ d_hist.both
    /\ ~d_hist.within
    /\ d_hist.behind
    /\ s_ret \in {"WaitForVideo", "WaitForAudio"}

\* a run that started with the drift beyond the threshold never ends on
\* Continue: the stream that is ahead is the one dropped from, and its next
\* entry is no earlier
PlayoutDropsTheStreamAhead ==
    (d_pc = "done" /\ d_hist.both /\ d_hist.steps > 1) => s_ret # "Continue"

(***************************************************************************)
(* C12  Sync buffer capacity.                                              *)
(***************************************************************************)
\* what an add into the buffer old must leave, for the capacity max: the
\* oldest entry gone when old was full, the new entry at the back
ExpectedAfterAdd(old, max, pts) ==
    IF Len(old) = max THEN Append(Tail(old), pts) ELSE Append(old, pts)

\* C12: with capacities >= 1, under any sequence of add, pop, drop, sync and
\* reset calls the video buffer never holds more than max_video_buffer
\* entries and the audio buffer never more than max_audio_buffer; an add
\* into a full buffer removes exactly the oldest entry and keeps the new
\* one, and video_frames_dropped (audio_samples_skipped for audio) grows by
\* exactly one per removed entry, the other counter staying as it was
C12_BufferCapacity ==
    /\ Len(s_video) <= s_cfg.max_video_buffer
    /\ Len(s_audio) <= s_cfg.max_audio_buffer
    /\ s_last.op = "add_video_frame" =>
          /\ s_video = ExpectedAfterAdd(s_last.video, s_cfg.max_video_buffer, s_last.pts)
          /\ s_audio = s_last.audio
          /\ s_stats.video_frames_dropped
                = s_last.stats.video_frames_dropped + (Len(s_last.video) + 1 - Len(s_video))
          /\ s_stats.audio_samples_skipped = s_last.stats.audio_samples_skipped
    /\ s_last.op = "add_audio_samples" =>
          /\ s_audio = ExpectedAfterAdd(s_last.audio, s_cfg.max_audio_buffer, s_last.pts)
          /\ s_video = s_last.video
          /\ s_stats.audio_samples_skipped
                = s_last.stats.audio_samples_skipped + (Len(s_last.audio) + 1 - Len(s_audio))
          /\ s_stats.video_frames_dropped = s_last.stats.video_frames_dropped

\* test_buffer_overflow: a video buffer of capacity 2 held two frames of
\* different pts, a third was added, the buffer holds the second and the
\* third and the counter grew by one
C12_Witness ==
    /\ s_last.op = "add_video_frame"
    /\ s_cfg.max_video_buffer = 2
    /\ Len(s_last.video) = 2
    /\ s_last.video[1] # s_last.video[2]
    /\ s_video = <<s_last.video[2], s_last.pts>>
    /\ s_stats.video_frames_dropped = s_last.stats.video_frames_dropped + 1

\* the same for a full audio buffer
BufferOverflowAudioReached ==
    /\ s_last.op = "add_audio_samples"
    /\ s_cfg.max_audio_buffer = 2
    /\ Len(s_last.audio) = 2
    /\ s_last.audio[1] # s_last.audio[2]
    /\ s_audio = <<s_last.audio[2], s_last.pts>>
    /\ s_stats.audio_samples_skipped = s_last.stats.audio_samples_skipped + 1

(***************************************************************************)
(* C13  Bitrate adjustment rate limit.                                     *)
(***************************************************************************)
\* the statistics make update decrease the bitrate once the interval is over
PoorStats(stats) == stats.rtt_ms > 200 \/ stats.packet_loss > 2000

\* C13: two calls of update that return SetBitrate are at least 1 s (1000
\* ms) apart, and an update called less than 1 s after the last adjustment
\* made by update, or after construction when there was none, returns none
\* and leaves current_bitrate as it was
C13_RateLimit ==
    /\ (b_last.op = "update" /\ b_ret # None /\ b_last.set_at >= 0)
          => b_last.now - b_last.set_at >= 1000
    /\ (b_last.op = "update" /\ b_last.now - b_last.adjusted_at < 1000)
          => (b_ret = None /\ b_current = b_last.current_bitrate)

\* update returned SetBitrate exactly 1 s after it last did
C13_Witness ==
    /\ b_last.op = "update"
    /\ b_ret # None
    /\ b_last.set_at >= 0
    /\ b_last.now - b_last.set_at = 1000

\* update was called 900 ms after an adjustment with statistics that call
\* for a decrease, on a bitrate above the minimum, and returned none
RateLimitedUpdateReached ==
    /\ b_last.op = "update"
    /\ b_last.set_at >= 0
    /\ b_last.now - b_last.set_at = 900
    /\ PoorStats(b_last.stats)
    /\ b_last.current_bitrate > b_cfg.min_bitrate + 1
    /\ b_ret = None
    /\ b_current = b_last.current_bitrate

(***************************************************************************)
(* C14  Bitrate range.                                                     *)
(***************************************************************************)
InBitrateRange(v) == b_cfg.min_bitrate <= v /\ v <= b_cfg.max_bitrate

\* C14: for a controller built by new(initial, min, max) with min <= max,
\* under any sequence of update and set_bitrate calls every emitted
\* SetBitrate(v) has min <= v <= max, and current_bitrate is within
\* [min, max] after each call that changes it
C14_BitrateRange ==
    /\ b_ret # None => InBitrateRange(b_ret[1].v)
    /\ (b_last.op # "none" /\ b_current # b_last.current_bitrate)
          => InBitrateRange(b_current)

\* the range does hold for the controllers whose initial bitrate is itself
\* within [min, max]
BitrateRangeFromInitialInRange ==
    InBitrateRange(b_cfg.initial_bitrate)
       => (InBitrateRange(b_current) /\ C14_BitrateRange)

\* new(100, 2, 20) and an update with poor statistics after the interval:
\* SetBitrate(75)
BitrateAboveMaxReached ==
    /\ b_cfg = [initial_bitrate |-> 100, min_bitrate |-> 2, max_bitrate |-> 20]
    /\ b_last.op = "update"
    /\ b_ret = Some(SetBitrate(75))

\* new(0, 2, 20) and an update with good statistics after the interval:
\* SetBitrate(1)
BitrateBelowMinReached ==
    /\ b_cfg = [initial_bitrate |-> 0, min_bitrate |-> 2, max_bitrate |-> 20]
    /\ b_last.op = "update"
    /\ b_ret = Some(SetBitrate(1))

(***************************************************************************)
(* C15  AIMD rule.                                                         *)
(***************************************************************************)
\* floor(0.75 * current): the largest n with 4 n <= 3 current
FloorThreeQuarters(current) ==
    CHOOSE n \in 0..current : 4 * n <= 3 * current /\ 4 * (n + 1) > 3 * current

\* 0.6 (1 - min(rtt / 500, 1)) + 0.4 (1 - min(loss / 5, 1)) > 0.8, both sides
\* times 25000, rtt in ms and loss in thousandths of a percent
QualityAboveFourFifths(stats) ==
    LET r == IF stats.rtt_ms < 500 THEN stats.rtt_ms ELSE 500
        l == IF stats.packet_loss < 5000 THEN stats.packet_loss ELSE 5000
    IN  30 * (500 - r) + 2 * (5000 - l) > 20000

\* the rule of the claim
ExpectedNewBitrate(current, min, max, stats) ==
    IF stats.rtt_ms > 200 \/ stats.packet_loss > 2000
    THEN IF FloorThreeQuarters(current) > min THEN FloorThreeQuarters(current) ELSE min
    ELSE IF QualityAboveFourFifths(stats)
    THEN IF current + 1 < max THEN current + 1 ELSE max
    ELSE current

\* C15: an update called once the interval has elapsed computes
\* new = max(min, floor(0.75 current)) when rtt > 200 ms or loss > 2 %, else
\* new = min(max, current + 1) when quality_score > 0.8, else new = current;
\* it returns SetBitrate(new) exactly when new # current, and current_bitrate
\* is new afterwards.  On the controller new(8, 2, 20): update at t = 0 with
\* rtt 300 and loss 5 returns none, at t = 1100 ms with the same statistics
\* SetBitrate(6), at t = 2200 ms with rtt 50 and loss 0.1 SetBitrate(7)
C15_AimdRule ==
    /\ (b_last.op = "update" /\ b_last.now - b_last.adjusted_at >= 1000) =>
          LET new == ExpectedNewBitrate(b_last.current_bitrate, b_cfg.min_bitrate,
                                        b_cfg.max_bitrate, b_last.stats)
          IN  /\ b_current = new
              /\ b_ret = IF new # b_last.current_bitrate
                         THEN Some(SetBitrate(new)) ELSE None
    /\ b_cfg = [initial_bitrate |-> 8, min_bitrate |-> 2, max_bitrate |-> 20] =>
          /\ b_hist.script = 1 => b_ret = None /\ b_current = 8
          /\ b_hist.script = 2 => b_ret = Some(SetBitrate(6)) /\ b_current = 6
          /\ b_hist.script = 3 => b_ret = Some(SetBitrate(7)) /\ b_current = 7

\* the worked example has run to its end
C15_Witness ==
    /\ b_cfg = [initial_bitrate |-> 8, min_bitrate |-> 2, max_bitrate |-> 20]
    /\ b_hist.script = 3
    /\ b_now = 2200
    /\ b_ret = Some(SetBitrate(7))

\* each branch of the rule has been taken after the interval: a decrease
\* that is not a multiple of 4, a decrease held at min, an increase held at
\* max, and statistics that are neither poor nor good
AimdDecreaseRoundedReached ==
    /\ b_last.op = "update" /\ b_last.now - b_last.adjusted_at >= 1000
    /\ PoorStats(b_last.stats)
    /\ 4 * b_current < 3 * b_last.current_bitrate
    /\ b_ret = Some(SetBitrate(b_current))
AimdDecreaseAtMinReached ==
    /\ b_last.op = "update" /\ b_last.now - b_last.adjusted_at >= 1000
    /\ PoorStats(b_last.stats)
    /\ b_last.current_bitrate = b_cfg.min_bitrate
    /\ b_ret = None
AimdIncreaseAtMaxReached ==
    /\ b_last.op = "update" /\ b_last.now - b_last.adjusted_at >= 1000
    /\ ~PoorStats(b_last.stats) /\ QualityAboveFourFifths(b_last.stats)
    /\ b_last.current_bitrate = b_cfg.max_bitrate
    /\ b_ret = None
AimdKeepReached ==
    /\ b_last.op = "update" /\ b_last.now - b_last.adjusted_at >= 1000
    /\ ~PoorStats(b_last.stats) /\ ~QualityAboveFourFifths(b_last.stats)
    /\ b_cfg.min_bitrate < b_current /\ b_current < b_cfg.max_bitrate
    /\ b_ret = None

(***************************************************************************)
(* C16  Quality score.                                                     *)
(***************************************************************************)
\* C16: for the statistics of every update (rtt >= 0, loss >= 0)
\* quality_score is 0.6 (1 - min(rtt / 500, 1)) + 0.4 (1 - min(loss / 5, 1)),
\* lies in [0, 1], is 1 when rtt = 0 and loss = 0, and is 0 when rtt >= 500
\* and loss >= 5
C16_QualityScore ==
    b_last.op = "update" =>
       LET q == quality_score(b_last.stats)
           r == IF b_last.stats.rtt_ms < 500 THEN b_last.stats.rtt_ms ELSE 500
           l == IF b_last.stats.packet_loss < 5000 THEN b_last.stats.packet_loss ELSE 5000
       IN  /\ q * 25000 = QUALITY_ONE * (15000 - 30 * r + 10000 - 2 * l)
           /\ 0 <= q /\ q <= QUALITY_ONE
           /\ (b_last.stats.rtt_ms = 0 /\ b_last.stats.packet_loss = 0) => q = QUALITY_ONE
           /\ (b_last.stats.rtt_ms >= 500 /\ b_last.stats.packet_loss >= 5000) => q = 0

\* an update past the interval has read the score of rtt = 600 ms and
\* loss = 6 %, beyond both caps: 0
C16_Witness ==
    /\ b_last.op = "update"
    /\ b_last.now - b_last.adjusted_at >= 1000
    /\ b_last.stats = [rtt_ms |-> 600, packet_loss |-> 6000]
    /\ quality_score(b_last.stats) = 0

\* an update past the interval has read the scores 1, 0 at the caps, and one
\* strictly between
QualityOneReached ==
    /\ b_last.op = "update"
    /\ b_last.now - b_last.adjusted_at >= 1000
    /\ b_last.stats = [rtt_ms |-> 0, packet_loss |-> 0]
    /\ quality_score(b_last.stats) = QUALITY_ONE
QualityZeroAtCapsReached ==
    /\ b_last.op = "update"
    /\ b_last.now - b_last.adjusted_at >= 1000
    /\ b_last.stats = [rtt_ms |-> 500, packet_loss |-> 5000]
    /\ quality_score(b_last.stats) = 0
QualityBetweenReached ==
    /\ b_last.op = "update"
    /\ b_last.now - b_last.adjusted_at >= 1000
    /\ b_last.stats = [rtt_ms |-> 50, packet_loss |-> 100]
    /\ quality_score(b_last.stats) * 1000 = QUALITY_ONE * 932

(***************************************************************************)
(* C17  Stream transport ordering.                                         *)
(***************************************************************************)
\* the packets the frames delivered by the socket of a kind stand for: the
\* kind of the socket, seq = 0, pts and payload as framed
ExpectedPackets(kind) ==
    [i \in 1..Len(t_hist.wire[kind]) |->
        Packet(kind, t_hist.wire[kind][i].pts, 0, t_hist.wire[kind][i].data)]

IsPrefix(a, b) == Len(a) <= Len(b) /\ \A i \in 1..Len(a) : a[i] = b[i]

\* no packet of the kind waits in the channel or with its task
ChannelHoldsNone(kind) ==
    /\ \A i \in 1..Len(t_chan) :
          t_chan[i].ok => t_chan[i].packet.packet_type # kind
    /\ t_pending[kind] = None

\* recv() has returned the packets of a kind in the order of its socket, and
\* all of them once none waits in the channel, close() not called
DeliveredInOrder(kind) ==
    /\ IsPrefix(t_hist.got[kind], ExpectedPackets(kind))
    /\ (~t_rx_closed /\ ChannelHoldsNone(kind)) =>
          Len(t_hist.got[kind]) = Len(t_hist.wire[kind])

\* C17: with the video and audio reader tasks running concurrently and
\* publishing into the shared channel, recv() returns the packets of one kind
\* in exactly the order their frames appear on that kind's socket, with the
\* kind of the producing socket, seq = 0, and pts and payload as framed;
\* it returns packets of no other kind
C17_StreamOrdering ==
    /\ \A kind \in {Video, Audio} : DeliveredInOrder(kind)
    /\ \A kind \in PacketTypes \ {Video, Audio} : t_hist.got[kind] = <<>>

\* the frames (pts = 0, 8 bytes) and (pts = 16667, 4 bytes) came on the video
\* socket with an audio frame read in between, and recv() has returned the
\* two Video packets in that order and the Audio packet
C17_Witness ==
    /\ t_hist.wire[Video] = <<[pts |-> 0, data |-> <<1, 2, 3, 4, 5, 6, 7, 8>>],
                              [pts |-> 16667, data |-> <<9, 10, 11, 12>>]>>
    /\ t_hist.got[Video] = <<Packet(Video, 0, 0, <<1, 2, 3, 4, 5, 6, 7, 8>>),
                             Packet(Video, 16667, 0, <<9, 10, 11, 12>>)>>
    /\ Len(t_hist.got[Audio]) = 1
    /\ t_ret.ok /\ t_ret.packet.packet_type = Video

(***************************************************************************)
(* C18  Graceful audio downgrade.                                          *)
(***************************************************************************)
\* the video socket connected and its handshake (device name, dummy byte,
\* metadata) succeeded
VideoHandshakeOk ==
    /\ t_hist.env.video_connect = "ok"
    /\ t_hist.env.device_name = "ok"
    /\ t_hist.env.video_metadata = "ok"

\* the transport is ready, without an audio reader task, and neither has
\* recv() returned an Audio packet nor does one wait in the channel
ReadyWithoutAudio ==
    /\ n_conn = "Tcp"
    /\ t_hist.connect.ok
    /\ t_task[Video] # "none"
    /\ t_task[Audio] = "none"
    /\ t_hist.got[Audio] = <<>>
    /\ ~(t_ret.ok /\ t_ret.packet.packet_type = Audio)
    /\ ChannelHoldsNone(Audio)

\* C18: if the video handshake succeeds and the 4-byte codec id read from
\* the audio socket is 0, connect returns a ready transport, no audio reader
\* task is started, and no recv() ever returns a packet of kind Audio
C18_AudioDowngrade ==
    (VideoHandshakeOk /\ t_hist.env.audio_codec = "zero") => ReadyWithoutAudio

\* the codec id was 0 and recv() has returned two Video packets
C18_Witness ==
    /\ VideoHandshakeOk
    /\ t_hist.env.enable_audio /\ t_hist.env.audio_connect = "ok"
    /\ t_hist.env.audio_codec = "zero"
    /\ Len(t_hist.got[Video]) = 2
    /\ t_ret.ok

(***************************************************************************)
(* C19  Audio socket failure is not fatal.                                 *)
(***************************************************************************)
\* C19: when audio is enabled and the audio socket connect fails or times
\* out while the video-socket handshake succeeds, connect still returns a
\* ready transport, which delivers the Video packets and no Audio packet
C19_AudioFailureNotFatal ==
    (/\ VideoHandshakeOk
     /\ t_hist.env.enable_audio
     /\ t_hist.env.audio_connect \in {"err", "timeout"})
       => (ReadyWithoutAudio /\ DeliveredInOrder(Video))

\* the audio connect timed out and recv() has returned a Video packet
C19_Witness ==
    /\ VideoHandshakeOk
    /\ t_hist.env.enable_audio /\ t_hist.env.audio_connect = "timeout"
    /\ t_hist.got[Video] = <<Packet(Video, 16667, 0, <<9, 10, 11, 12>>)>>
    /\ t_ret.ok

\* the same after a refused audio connect
AudioConnectRefusedReached ==
    /\ VideoHandshakeOk
    /\ t_hist.env.enable_audio /\ t_hist.env.audio_connect = "err"
    /\ Len(t_hist.got[Video]) = 1
    /\ t_ret.ok

\* connect fails exactly when the video socket or its handshake does
ConnectFailsOnVideoOnly ==
    t_hist.env.video_connect # "none" => (t_hist.connect.ok <=> VideoHandshakeOk)

(***************************************************************************)
(* C20  recv() error kind on clean EOF.                                    *)
(***************************************************************************)
\* C20: when the peer closes a stream socket cleanly at a frame boundary,
\* the error recv() returns for that termination is ConnectionClosed
C20_CleanEofIsConnectionClosed ==
    t_hist.ret_cause = "eof" => t_ret = Err("ConnectionClosed")

\* what recv() returns for a clean end of stream is always the Io error of
\* read_exact
CleanEofIsIo == t_hist.first_eof \in {NoResult, Err("Io")}

\* recv() has returned Io for the clean end of the only socket
CleanEofReportedAsIoReached ==
    /\ t_hist.ret_cause = "eof"
    /\ t_ret = Err("Io")
    /\ t_task[Audio] = "none"

\* ConnectionClosed has come only with the recv() after that one
ClosedAfterEofReached ==
    /\ t_hist.ret_cause = "closed"
    /\ t_hist.first_eof = Err("Io")
    /\ t_ret = Err("ConnectionClosed")
    /\ ~t_rx_closed

\* the other terminations: an oversized frame is a Protocol error, a frame
\* cut short an Io error
OtherTerminations ==
    /\ t_hist.ret_cause = "oversize" => t_ret = Err("Protocol")
    /\ t_hist.ret_cause = "cut" => t_ret = Err("Io")
    /\ t_hist.ret_cause = "frame" => t_ret.ok

(***************************************************************************)
(* C21  Reader task termination.                                           *)
(***************************************************************************)
\* a reader task that hit an error or the end of its stream has ended and
\* has queued one terminal error, and nothing after it
OneTerminalError(kind) ==
    /\ (t_hist.hit[kind] > 0 /\ t_task[kind] # "sending") =>
          (t_task[kind] = "done" /\ t_hist.errs[kind] = 1)
    /\ t_hist.after_err[kind] = 0

\* C21: when either stream reader task hits an error or EOF it enqueues
\* exactly one terminal error into the channel and enqueues nothing
\* afterwards, and the consumer observes that error on the next recv() it
\* performs after the task terminated
C21_TerminalErrorOnNextRecv ==
    /\ \A kind \in {Video, Audio} : OneTerminalError(kind)
    /\ t_hist.ret_awaited # {} =>
          (~t_ret.ok /\ t_hist.ret_from \in t_hist.ret_awaited)

\* the entries of the channel are packets exactly where a frame was read
ChannelMatchesReads ==
    /\ Len(t_hist.meta) = Len(t_chan)
    /\ \A i \in 1..Len(t_chan) : t_chan[i].ok <=> t_hist.meta[i].cause = "frame"

\* C21 as the code has it: a reader task that hits an error or EOF queues
\* one terminal error, or none if the consumer has closed the receiver (the
\* send fails and the error is dropped), and queues nothing afterwards; the
\* channel is first in, first out over both tasks, so the n-th entry queued
\* is what the n-th completed recv() returns, and the terminal error is
\* observed by the recv() that follows those returning the entries queued
\* before it
C21_TerminalErrorInOrder ==
    /\ \A kind \in {Video, Audio} :
          /\ t_hist.errs[kind] <= 1
          /\ t_hist.after_err[kind] = 0
          /\ (t_hist.hit[kind] > 0 /\ t_task[kind] # "sending") =>
                /\ t_task[kind] = "done"
                /\ t_hist.hit[kind] = 1
                /\ \/ t_hist.errs[kind] = 1 /\ t_hist.dropped[kind] = 0
                   \/ t_hist.errs[kind] = 0 /\ t_hist.dropped[kind] = 1 /\ t_rx_closed
    /\ ChannelMatchesReads
    /\ t_hist.ret_serial # 0 =>
          /\ t_hist.ret_serial = t_hist.recvs
          /\ t_ret.ok <=> t_hist.ret_cause = "frame"

\* the video task read a frame and then the end of its stream and ended;
\* the first recv() returned the packet and the second the terminal error
C21_Witness ==
    /\ t_task[Video] = "done"
    /\ t_hist.errs[Video] = 1
    /\ t_hist.ret_cause = "eof" /\ ~t_ret.ok
    /\ t_hist.ret_from = Video
    /\ t_hist.ret_serial = 2 /\ t_hist.recvs = 2
    /\ Len(t_hist.got[Video]) = 1

\* a recv() made after the video task had ended returned a packet while the
\* terminal error waited behind it
PacketAheadOfTerminalErrorReached ==
    /\ Video \in t_hist.ret_awaited
    /\ t_ret.ok

\* a task that hit the end of its stream after close() has queued no error
TerminalErrorDroppedReached ==
    /\ t_task[Video] = "done"
    /\ t_hist.errs[Video] = 0
    /\ t_hist.dropped[Video] = 1
    /\ t_rx_closed

(***************************************************************************)
(* C22  Cancellation of the receive loop.                                  *)
(***************************************************************************)
\* every recv() of the loop was preceded, in its iteration, by a read of
\* the flag
FlagReadEachIteration == m_pc = "recv" => m_hist.checked

\* the loop has been left and the connection it owned is closed
SessionLeftAndClosed == m_pc = "exited" /\ (n_conn = "Tcp" => t_rx_closed)

\* C22: the receive loop reads the session's running flag at least once
\* per iteration, and once the flag is false the loop goes on to its exit by
\* itself, also when it is suspended in a recv() for which no packet
\* arrives, and the transport's connection is closed: with the flag false
\* the loop has been left, or a step of it is enabled without any help of
\* the device
C22_CancellationExitsLoop ==
    /\ FlagReadEachIteration
    /\ ~m_running => (SessionLeftAndClosed \/ ENABLED SessionLoopStep)

\* the same as a property of the runs: the flag false leads to the loop
\* having been left
CancellationLeadsToExit == (~m_running) ~> (m_pc = "exited")

\* the flag is false and the loop is suspended in recv() on an empty
\* channel while the device sends nothing
CancelledLoopSuspendedReached ==
    /\ ~m_running
    /\ m_pc = "recv"
    /\ t_chan = <<>>
    /\ t_task[Video] = "running"

\* a loop that is at its top when the flag is false is left at once, and
\* closes the connection
CancellationSeenAtLoopTop ==
    m_hist.exit_cause = "flag" => (~m_running /\ SessionLeftAndClosed)

\* the loop has been left because the flag was false
CancelledAtLoopTopReached ==
    /\ m_hist.exit_cause = "flag"
    /\ m_hist.iterations > 0

(***************************************************************************)
(* C23  close() unblocks recv().                                           *)
(***************************************************************************)
\* the last recv() of the stream transport completed after close()
StreamRecvAfterClose == n_conn = "Tcp" /\ t_hist.ret_closed

\* the last recv() of the datagram transport was made after close()
DatagramRecvAfterClose == n_conn = "Quic" /\ q_hist.after_close

\* what that recv() returned is a packet that was in the channel when
\* close() was called
BufferedAtClose == t_ret.ok /\ t_hist.ret_serial <= t_hist.close_sent

\* C23: after close() on a transport, stream or datagram, a recv() fails
\* with ConnectionClosed, after at most the packets already buffered in the
\* channel have been returned, and never returns a packet read after the
\* close
C23_CloseUnblocksRecv ==
    /\ StreamRecvAfterClose =>
          (t_ret = Err("ConnectionClosed") \/ BufferedAtClose)
    /\ DatagramRecvAfterClose => q_ret = Err("ConnectionClosed")

\* the stream transport after close(): nothing is queued any more, recv()
\* returns what was queued before the close, oldest first, and then
\* ConnectionClosed
StreamCloseDrains ==
    /\ t_rx_closed => t_hist.sent = t_hist.close_sent
    /\ StreamRecvAfterClose =>
          IF t_hist.ret_serial = 0 THEN t_ret = Err("ConnectionClosed")
          ELSE t_hist.ret_serial <= t_hist.close_sent

\* the datagram transport after close(): recv() fails, with the Quic error
\* made from the connection's own
DatagramCloseFailsAsQuic == DatagramRecvAfterClose => q_ret = Err("Quic")

\* recv() after close() on the datagram transport has returned the Quic
\* error
DatagramClosedAsQuicReached == DatagramRecvAfterClose /\ q_ret = Err("Quic")

\* recv() after close() on the stream transport has returned a terminal Io
\* error that was waiting in the channel
StreamClosedOnBufferedErrorReached ==
    /\ StreamRecvAfterClose
    /\ t_ret = Err("Io")
    /\ t_hist.ret_serial <= t_hist.close_sent

\* recv() after close() on the stream transport has returned a buffered
\* packet and then ConnectionClosed, while a frame read after the close was
\* dropped
StreamClosedAfterDrainReached ==
    /\ StreamRecvAfterClose
    /\ t_ret = Err("ConnectionClosed")
    /\ Len(t_hist.got[Video]) = 1
    /\ t_hist.dropped[Video] = 1

(***************************************************************************)
(* C24  Backpressure of the transport-to-consumer channel.                 *)
(***************************************************************************)
\* the packets of a kind that wait in the channel
InChannel(kind) ==
    Cardinality({i \in 1..Len(t_chan) :
                    t_chan[i].ok /\ t_chan[i].packet.packet_type = kind})

\* the packet of a kind that its task holds while it is blocked in send
HeldBySender(kind) ==
    IF t_pending[kind] # None /\ t_pending[kind][1].res.ok THEN 1 ELSE 0

\* C24: the channel never holds more than 100 entries; when it is full a
\* reader task blocks in send, holding the one frame it has read and
\* reading no further frame from its socket; and while the consumer is
\* still receiving no packet a reader task has read is dropped: each is in
\* the consumer's hands, in the channel, or held by the blocked task
C24_Backpressure ==
    /\ Len(t_chan) <= CHANNEL_CAPACITY
    /\ \A kind \in {Video, Audio} :
          /\ t_task[kind] = "sending" <=> t_pending[kind] # None
          /\ ~t_rx_closed =>
                /\ t_hist.dropped[kind] = 0
                /\ Len(t_hist.wire[kind]) =
                      Len(t_hist.got[kind]) + InChannel(kind) + HeldBySender(kind)

\* the channel is full with 100 packets, the video task is blocked in send
\* with the next frame, and the consumer has received a packet already
C24_Witness ==
    /\ Len(t_chan) = CHANNEL_CAPACITY
    /\ t_task[Video] = "sending"
    /\ Len(t_hist.wire[Video]) = Len(t_hist.got[Video]) + CHANNEL_CAPACITY + 1
    /\ Len(t_hist.got[Video]) >= 1

\* every frame of the burst has reached the consumer, the ones read while
\* the channel was full included
BurstDeliveredReached ==
    /\ Len(t_hist.got[Video]) = MaxBurst
    /\ t_chan = <<>>

(***************************************************************************)
(* Invalid FEC geometry.                                                   *)
(***************************************************************************)
\* the last call was add_fec_packet with a data_count or parity_count that
\* is zero, or is not the one stored for the block, or is not the decoder's
InvalidGeometryFed ==
    /\ f_last.op = "fec"
    /\ \/ f_last.counts[1] = 0
       \/ f_last.counts[2] = 0
       \/ f_last.prior_counts # <<>> /\ f_last.counts # f_last.prior_counts
       \/ f_last.counts # <<DataShards, ParityShards>>

\* C25: a FEC packet whose data_count or parity_count is zero, or differs
\* from the counts stored for its block or configured in the decoder, yields
\* a Protocol error and its block is not in the cache afterwards (so that
\* no shard of the packet is stored)
C25_InvalidGeometryRejected ==
    InvalidGeometryFed =>
        /\ f_last.err = "Protocol"
        /\ f_last.block_id \notin DOMAIN f_blocks

\* what add_fec_packet does with such a packet: without a panic, the block
\* is in the cache afterwards, created with the packet's counts if it was
\* not there and with its stored counts otherwise
InvalidGeometryKept ==
    (InvalidGeometryFed /\ ~f_panicked) =>
        /\ f_last.block_id \in DOMAIN f_blocks
        /\ <<f_blocks[f_last.block_id].data_count,
             f_blocks[f_last.block_id].parity_count>>
             = IF f_last.prior_counts = <<>> THEN f_last.counts
               ELSE f_last.prior_counts

\* a packet announcing no data shard has created its block
ZeroGeometryCachedReached ==
    /\ InvalidGeometryFed
    /\ f_last.counts[1] = 0
    /\ f_last.prior_counts = <<>>
    /\ f_last.block_id \in DOMAIN f_blocks

\* a packet of another geometry than the block's has left a shard in it
MismatchStoredReached ==
    /\ InvalidGeometryFed
    /\ f_last.prior_counts = <<DataShards, ParityShards>>
    /\ f_last.counts = <<1, 1>>
    /\ f_last.total > 0
    /\ f_last.block_id \in DOMAIN f_blocks

(***************************************************************************)
(* FEC block eviction.                                                     *)
(***************************************************************************)
\* the last decoder call was cleanup() and it ran: it was made
\* CLEANUP_INTERVAL_SECS or more after the previous run
CleanupRan ==
    /\ f_last.op = "cleanup"
    /\ f_last.at - f_last.prior_cleanup >= CLEANUP_INTERVAL_SECS

CleanupSkipped ==
    /\ f_last.op = "cleanup"
    /\ f_last.at - f_last.prior_cleanup < CLEANUP_INTERVAL_SECS

\* the blocks of the cache before the last cleanup() created secs seconds or
\* more before the call
CreatedBefore(secs) ==
    {b \in DOMAIN f_last.prior : f_last.at - f_last.prior[b].created_at >= secs}

\* C26: a cleanup call made less than 5 s after the previous cleanup run
\* leaves the block cache unchanged; a cleanup that runs removes exactly the
\* blocks created 10 s or more ago and keeps every younger block unchanged
C26_BlockEviction ==
    /\ CleanupSkipped =>
          /\ f_blocks = f_last.prior
          /\ f_last_cleanup = f_last.prior_cleanup
    /\ CleanupRan =>
          /\ DOMAIN f_blocks = DOMAIN f_last.prior \ CreatedBefore(BLOCK_TTL_SECS)
          /\ \A b \in DOMAIN f_blocks : f_blocks[b] = f_last.prior[b]
          /\ f_last_cleanup = f_last.at

\* a cleanup has run on a cache holding a block created exactly 10 s before
\* and a younger one: the first is gone, the second is kept
C26_Witness ==
    /\ CleanupRan
    /\ \E b \in DOMAIN f_last.prior :
          /\ f_last.at - f_last.prior[b].created_at = BLOCK_TTL_SECS
          /\ b \notin DOMAIN f_blocks
    /\ \E b \in DOMAIN f_last.prior :
          /\ f_last.at - f_last.prior[b].created_at < BLOCK_TTL_SECS
          /\ f_last.at - f_last.prior[b].created_at > 0
          /\ b \in DOMAIN f_blocks

\* a cleanup called some seconds, but less than 5, after the previous run
\* has left a block older than 10 s in the cache
SkippedCleanupKeepsOldReached ==
    /\ CleanupSkipped
    /\ f_last.at - f_last.prior_cleanup > 0
    /\ \E b \in DOMAIN f_blocks :
          f_last.at - f_blocks[b].created_at > BLOCK_TTL_SECS

\* the decoder of the datagram transport (quic.rs) evicts in add_packet: on
\* any cache the model reaches, add_packet leaves it unchanged up to 5 s
\* after the previous run and keeps exactly the blocks younger than 10 s
\* later
DatagramDecoderEviction ==
    LET dec == [blocks |-> f_blocks, last_cleanup |-> f_last_cleanup]
        res == add_packet(dec, 0, <<>>, f_now)
    IN  /\ f_now - f_last_cleanup <= QUIC_CLEANUP_INTERVAL_SECS => res = dec
        /\ f_now - f_last_cleanup > QUIC_CLEANUP_INTERVAL_SECS =>
              /\ DOMAIN res.blocks =
                    {b \in DOMAIN f_blocks :
                        f_now - f_blocks[b].created_at < QUIC_BLOCK_TTL_SECS}
              /\ \A b \in DOMAIN res.blocks : res.blocks[b] = f_blocks[b]
              /\ res.last_cleanup = f_now

(***************************************************************************)
(* FEC encoder blocks.  f_sent holds the packets of the encode calls so    *)
(* far and f_parity the concatenation of what the calls returned, so the   *)
(* i-th call returned f_parity beyond what the first i - 1 calls had.      *)
(***************************************************************************)
\* the number of blocks completed by the first calls encode calls
BlocksAfter(calls) == calls \div DataShards

\* C27: the i-th encode call on a fresh encoder returns exactly r parity
\* packets when i is a multiple of k and none otherwise (after i calls,
\* r packets per completed block have been returned); the packets of the
\* (j*k)-th call carry block_id j - 1, indices k..k+r-1, data_count k and
\* parity_count r; after that call the block buffer is empty (the buffer
\* holds the packets passed since the last completed block)
C27_EncoderBlocks ==
    LET calls == Len(f_sent)
    IN  /\ Len(f_parity) = ParityShards * BlocksAfter(calls)
        /\ \A j \in 1..BlocksAfter(calls) : \A i \in 1..ParityShards :
              LET fp == f_parity[(j - 1) * ParityShards + i]
              IN  /\ fp.block_id = j - 1
                  /\ fp.index = DataShards + i - 1
                  /\ fp.data_count = DataShards
                  /\ fp.parity_count = ParityShards
        /\ f_enc.block_buffer
             = SubSeq(f_sent, BlocksAfter(calls) * DataShards + 1, calls)
        /\ f_enc.current_block_id = BlocksAfter(calls)

\* the call completing the second block has returned its parity packets,
\* tagged with block_id 1, and left the buffer empty
C27_Witness ==
    /\ Len(f_sent) = 2 * DataShards
    /\ Len(f_parity) = 2 * ParityShards
    /\ f_parity[Len(f_parity)].block_id = 1
    /\ f_parity[Len(f_parity)].index = DataShards + ParityShards - 1
    /\ f_enc.block_buffer = <<>>

\* a call that does not complete a block has returned nothing and kept the
\* packet in the buffer
PartialBlockBufferedReached ==
    /\ Len(f_sent) = 2 * DataShards + 1
    /\ Len(f_parity) = 2 * ParityShards
    /\ f_enc.block_buffer = <<f_sent[Len(f_sent)]>>

(***************************************************************************)
(* FEC decoder trigger.                                                    *)
(***************************************************************************)
\* the last decoder call was an insertion that did not panic
Inserted == f_last.op \in {"data", "fec"} /\ ~f_panicked

\* the block of the last insertion, and its k
LastBlock == f_blocks[f_last.block_id]

\* the insertion returns packets only with k or more shards received, a data
\* shard missing and the block not recovered before, and the packets are
\* those of missing data slots
ReturnsOnlyForMissing ==
    (Inserted /\ f_ret # <<>>) =>
        /\ f_last.total >= LastBlock.data_count
        /\ f_last.missing # {}
        /\ ~f_last.prior_recovered
        /\ LastBlock.recovered
        /\ Len(f_last.slots) = Len(f_ret)
        /\ \A i \in 1..Len(f_last.slots) : f_last.slots[i] \in f_last.missing

\* an insertion after which all k data shards are present marks the block
\* recovered and returns nothing
AllDataPresentMarks ==
    (Inserted /\ f_last.missing = {}) =>
        /\ LastBlock.recovered
        /\ f_ret = <<>>
        /\ f_last.rs = "none"

\* with fewer than k shards nothing is returned and the block is unrecovered
TooFewShardsWaits ==
    (Inserted /\ f_last.total < LastBlock.data_count) =>
        /\ ~LastBlock.recovered
        /\ f_ret = <<>>
        /\ f_last.rs = "none"

\* C28: an insertion returns recovered packets only if, after it, k or more
\* shards of the block are received, a data shard is missing and the block
\* was not yet recovered, and the packets are those of data slots that were
\* missing; an insertion that makes all k data shards present marks the
\* block recovered and returns nothing; with fewer than k shards nothing is
\* returned and the block stays unrecovered
C28_DecoderTrigger ==
    /\ ReturnsOnlyForMissing
    /\ AllDataPresentMarks
    /\ TooFewShardsWaits

\* an insertion has returned the packet of the one missing data slot of a
\* block whose other data shard had been received
C28_Witness ==
    /\ Inserted
    /\ f_ret # <<>>
    /\ f_last.total >= LastBlock.data_count
    /\ f_last.missing # {}
    /\ Cardinality(f_last.missing) < LastBlock.data_count
    /\ LastBlock.recovered

\* an insertion has completed the data shards of a block holding parity
AllDataPresentReached ==
    /\ Inserted
    /\ f_last.op = "data"
    /\ f_last.missing = {}
    /\ ~f_last.prior_recovered
    /\ f_last.total > LastBlock.data_count
    /\ LastBlock.recovered

\* an insertion has left a block with fewer than k shards
TooFewShardsReached ==
    /\ Inserted
    /\ f_last.total > 0
    /\ f_last.total < LastBlock.data_count

\* an insertion has returned the packets of all data slots: none had been
\* received
AllSlotsRecoveredReached ==
    /\ Inserted
    /\ Len(f_ret) = LastBlock.data_count
    /\ LastBlock.data_count > 1

(***************************************************************************)
(* FEC reconstruction failure.                                             *)
(***************************************************************************)
\* the last insertion ran a reconstruction that failed
ReconstructionFailed == f_last.op \in {"data", "fec"} /\ f_last.rs = "err"

\* C29: when a reconstruction attempt fails, the insertion returns no
\* packets and no error, the block stays recovered = false and keeps its
\* shards; reconstruction runs only within an insertion, for the block of
\* that insertion
C29_ReconstructionFailure ==
    /\ ReconstructionFailed =>
          /\ f_ret = <<>>
          /\ f_last.err = "none"
          /\ ~f_panicked
          /\ f_last.block_id \in DOMAIN f_blocks
          /\ ~LastBlock.recovered
          /\ Received(LastBlock.data_shards) + Received(LastBlock.parity_shards)
               = f_last.total
          /\ {i \in 1..Len(LastBlock.data_shards) :
                 LastBlock.data_shards[i] = None} = f_last.missing
    /\ f_last.rs # "none" => f_last.op \in {"data", "fec"}

\* a reconstruction has failed on a block that holds k or more shards
C29_Witness ==
    /\ ReconstructionFailed
    /\ f_last.total >= LastBlock.data_count
    /\ f_last.total > 0
    /\ ~LastBlock.recovered

\* a later insertion into a block whose reconstruction had run without
\* success has run it again, and it failed again
FailedReconstructionRetriedReached ==
    /\ ReconstructionFailed
    /\ f_last.ever_ran
    /\ ~f_last.ever_recovered

\* a later insertion into a block whose reconstruction had failed has
\* reconstructed it
RecoveredAfterFailureReached ==
    /\ f_last.op \in {"data", "fec"}
    /\ f_last.rs = "ok"
    /\ f_last.ever_ran
    /\ ~f_last.ever_recovered

(***************************************************************************)
(* Video decode error isolation.                                           *)
(***************************************************************************)
\* C30: when decode() of a video packet returns an error the receive loop
\* continues with the next recv(), and the packet is discarded: the scratch
\* buffer is empty when the next decode() starts, so each codec submission
\* is exactly the bytes of the packet passed to that call
C30_DecodeErrorIsolation ==
    m_hist.decodes > 0 =>
        /\ m_hist.continued
        /\ m_hist.scratch = <<>>
        /\ m_hist.submitted = m_hist.data

\* the receive loop goes on after every decode() error
LoopContinuesAfterDecodeError == m_hist.continued

\* each submission is the scratch buffer followed by the packet's bytes, and
\* the scratch buffer holds bytes only when the previous decode() failed
ScratchHoldsFailedSubmissions ==
    m_hist.decodes > 0 =>
        /\ m_hist.submitted = m_hist.scratch \o m_hist.data
        /\ m_hist.scratch # <<>> => m_hist.prev_ret = "Err"
        /\ m_hist.ret # "Err" => m_dec = <<>>

\* a decode() has submitted the bytes of an earlier, failed packet together
\* with those of its own
StaleBytesResubmittedReached ==
    /\ m_hist.decodes > 1
    /\ m_hist.prev_ret = "Err"
    /\ m_hist.scratch # <<>>
    /\ m_hist.data # <<>>
    /\ m_hist.submitted # m_hist.data
    /\ m_pc = "check"

\* a decode() after a failed one has started on an empty scratch buffer
\* (the failure came after the submission)
FailedPacketDiscardedReached ==
    /\ m_hist.decodes > 1
    /\ m_hist.prev_ret = "Err"
    /\ m_hist.scratch = <<>>
    /\ m_hist.submitted = m_hist.data
    /\ m_hist.data # <<>>

(***************************************************************************)
(* Jitter buffer pull.                                                     *)
(***************************************************************************)
\* seq is what is left of from after removing some of its first elements
IsSuffix(seq, from) ==
    /\ Len(seq) <= Len(from)
    /\ seq = SubSeq(from, Len(from) - Len(seq) + 1, Len(from))

\* the samples buffered before the last call, oldest first
PriorSamples == Flat(j_last.prior.buffer)

\* how many of them a pull of count samples takes
Taken == IF j_last.count < Len(PriorSamples) THEN j_last.count ELSE Len(PriorSamples)

\* C31: pop_samples(n) returns exactly n samples, the first min(n, buffered)
\* being the oldest buffered samples in FIFO order and the rest silence; the
\* buffered samples are then the former ones without those taken (the count
\* decreases by min(n, buffered)), and a partially consumed chunk stays at
\* the head with its remaining samples, the chunks behind it untouched
C31_JitterPull ==
    j_last.op = "pop" =>
        /\ Len(j_last.ret) = j_last.count
        /\ SubSeq(j_last.ret, 1, Taken) = SubSeq(PriorSamples, 1, Taken)
        /\ \A i \in (Taken + 1)..j_last.count : j_last.ret[i] = 0
        /\ Flat(j_buf.buffer) = SubSeq(PriorSamples, Taken + 1, Len(PriorSamples))
        /\ j_buf.current_size_samples
             = j_last.prior.current_size_samples - Taken
        /\ j_buf.buffer # <<>> =>
              /\ IsSuffix(Head(j_buf.buffer),
                          j_last.prior.buffer[Len(j_last.prior.buffer)
                                                - Len(j_buf.buffer) + 1])
              /\ Tail(j_buf.buffer)
                   = SubSeq(j_last.prior.buffer,
                            Len(j_last.prior.buffer) - Len(j_buf.buffer) + 2,
                            Len(j_last.prior.buffer))

\* a pull has taken part of the head chunk: the rest of it is at the head
C31_Witness ==
    /\ j_last.op = "pop"
    /\ j_last.count > 0
    /\ j_last.count < Len(Head(j_last.prior.buffer \o <<<<>>>>))
    /\ Len(j_last.prior.buffer) > 1
    /\ Len(j_buf.buffer) = Len(j_last.prior.buffer)
    /\ Len(Head(j_buf.buffer)) = Len(Head(j_last.prior.buffer)) - j_last.count

\* a pull of more samples than were buffered has been padded with silence
PaddedPullReached ==
    /\ j_last.op = "pop"
    /\ Len(PriorSamples) > 0
    /\ j_last.count > Len(PriorSamples)
    /\ j_last.ret[j_last.count] = 0
    /\ j_buf.buffer = <<>>

\* a pull has taken samples of two chunks
PullAcrossChunksReached ==
    /\ j_last.op = "pop"
    /\ Len(j_last.prior.buffer) > 1
    /\ j_last.count > Len(Head(j_last.prior.buffer \o <<<<>>>>))
    /\ Len(Head(j_last.prior.buffer \o <<<<>>>>)) > 0
    /\ j_buf.buffer # <<>>

(***************************************************************************)
(* Jitter buffer bound.                                                    *)
(***************************************************************************)
\* C32: after every push the buffered samples are at most the capacity
\* (J * sample_rate / 1000) * channels, and what is buffered is the former
\* samples followed by the pushed ones without some of the oldest: no sample
\* is discarded while an older one stays
C32_JitterBound ==
    /\ j_buf.max_size_samples
         = ((JitterMs * JitterSampleRate) \div 1000) * JitterChannels
    /\ j_last.op = "push" =>
          /\ Len(Flat(j_buf.buffer)) <= j_buf.max_size_samples
          /\ j_buf.current_size_samples <= j_buf.max_size_samples
          /\ IsSuffix(Flat(j_buf.buffer), PriorSamples \o j_last.chunk)

\* a push onto a buffer with room for part of it only has discarded the
\* oldest chunk and kept a former chunk and the new one
C32_Witness ==
    /\ j_last.op = "push"
    /\ Len(j_last.prior.buffer) > 1
    /\ Len(j_buf.buffer) > 1
    /\ Len(PriorSamples) + Len(j_last.chunk) > j_buf.max_size_samples
    /\ Len(Flat(j_buf.buffer)) < Len(PriorSamples) + Len(j_last.chunk)
    /\ Len(Flat(j_buf.buffer)) > Len(j_last.chunk)

\* a push of a chunk longer than the capacity has emptied the buffer
OversizeChunkDroppedReached ==
    /\ j_last.op = "push"
    /\ Len(j_last.chunk) > j_buf.max_size_samples
    /\ Len(PriorSamples) > 0
    /\ j_buf.buffer = <<>>

(***************************************************************************)
(* Jitter buffer accounting.                                               *)
(***************************************************************************)
\* C36: after any sequence of push and pop_samples calls
\* current_size_samples is the number of samples held in the buffered
\* chunks, and is 0 exactly when the buffer holds no sample
C36_JitterAccounting ==
    /\ j_buf.current_size_samples = Len(Flat(j_buf.buffer))
    /\ j_buf.current_size_samples = 0 <=> Flat(j_buf.buffer) = <<>>

\* the count is right after a pull that was padded with silence, made on a
\* buffer that a push had trimmed
C36_Witness ==
    /\ PaddedPullReached
    /\ j_pushed.samples > j_buf.max_size_samples
    /\ j_buf.current_size_samples = 0

\* the count is right after a push that trimmed, made after a pull that
\* took part of a chunk
TrimAfterPartialPullReached ==
    /\ j_last.op = "push"
    /\ Len(Flat(j_buf.buffer)) < Len(PriorSamples) + Len(j_last.chunk)
    /\ j_buf.buffer # <<>>
    /\ j_last.prior.buffer # <<>>
    /\ Head(j_last.prior.buffer) # <<>>
    /\ Head(j_last.prior.buffer)[1] > 1
    /\ j_buf.current_size_samples = Len(Flat(j_buf.buffer))

(***************************************************************************)
(* Stable sequence-to-block mapping.                                       *)
(***************************************************************************)
\* a decoder that is given, of the first n insertions of log, only those
\* of block b, in the same order: its cache and what its last call returned
RECURSIVE DeliveredAlone(_, _, _)
DeliveredAlone(log, b, n) ==
    IF n = 0 THEN [blocks |-> <<>>, ret |-> <<>>]
    ELSE LET prev == DeliveredAlone(log, b, n - 1)
             e    == log[n]
         IN  IF BlockOf(e) # b THEN prev
             ELSE LET stored == IF e.op = "data"
                                THEN store_data(prev.blocks, e.seq, e.data, 0)
                                ELSE store_parity(prev.blocks, e.fp, 0)
                      res    == try_recover(stored.blocks, b)
                  IN  [blocks |-> res.blocks, ret |-> res.ret]

\* the last insertion, if it was add_data_packet(seq, data), has left data
\* in slot seq mod k of block seq div k
StoredAtSeqModK ==
    (i_log # <<>> /\ i_log[Len(i_log)].op = "data") =>
        LET e == i_log[Len(i_log)]
        IN  /\ (e.seq \div DataShards) \in DOMAIN f_blocks
            /\ f_blocks[e.seq \div DataShards].data_shards[(e.seq % DataShards) + 1]
                 = Some(e.data)

\* C33: add_data_packet(seq, .) stores into slot seq mod k of block
\* seq div k and touches no other block: however the shards of different
\* blocks are interleaved, each block is cached with the shards and the
\* recovered flag it has when its shards are delivered alone in the same
\* order, and an insertion returns what it returns then
C33_StableBlockMapping ==
    /\ ~f_panicked
    /\ StoredAtSeqModK
    /\ \A b \in 0..(InterleaveBlocks - 1) :
          LET alone == DeliveredAlone(i_log, b, Len(i_log))
          IN  /\ b \in DOMAIN f_blocks <=> b \in DOMAIN alone.blocks
              /\ b \in DOMAIN f_blocks => f_blocks[b] = alone.blocks[b]
              /\ (i_log # <<>> /\ BlockOf(i_log[Len(i_log)]) = b) =>
                    f_ret = alone.ret

\* shards of two blocks have arrived interleaved, a shard of block 1 before
\* one of block 0, and the last insertion has recovered a packet of its
\* block
C33_Witness ==
    /\ Len(i_log) = MaxInterleaved
    /\ BlockOf(i_log[1]) = 1
    /\ BlockOf(i_log[2]) = 0
    /\ BlockOf(i_log[3]) = 1
    /\ BlockOf(i_log[4]) = 0
    /\ f_ret # <<>>
    /\ f_blocks[0].recovered
    /\ f_blocks[1].recovered

(***************************************************************************)
(* FEC flush.                                                              *)
(***************************************************************************)
\* the block flush encodes: the buffered packets, then empty Video packets
\* up to k
RECURSIVE PaddedWithEmptyVideo(_)
PaddedWithEmptyVideo(buffer) ==
    IF Len(buffer) >= DataShards THEN buffer
    ELSE PaddedWithEmptyVideo(buffer \o <<Packet(Video, 0, 0, <<>>)>>)

\* C34: flush() with 1 to k - 1 buffered packets returns the r parity
\* packets of the block padded to k with empty Video packets, tagged with
\* the current block_id and indices k..k+r-1, empties the buffer and
\* increments block_id by one; flush() with an empty buffer returns no
\* packet and leaves block_id and the buffer unchanged
C34_Flush ==
    f_last.op = "flush" =>
        LET before == f_last.prior
            n      == Len(before.block_buffer)
        IN  /\ n < DataShards
            /\ n = 0 =>
                  /\ f_last.out = <<>>
                  /\ f_last.after = before
            /\ n > 0 =>
                  /\ Len(f_last.out) = ParityShards
                  /\ f_last.out
                       = encode_block(PaddedWithEmptyVideo(before.block_buffer),
                                      before.current_block_id)
                  /\ \A i \in 1..Len(f_last.out) :
                        /\ f_last.out[i].block_id = before.current_block_id
                        /\ f_last.out[i].index = DataShards + i - 1
                        /\ f_last.out[i].data_count = DataShards
                        /\ f_last.out[i].parity_count = ParityShards
                  /\ f_last.after.block_buffer = <<>>
                  /\ f_last.after.current_block_id = before.current_block_id + 1

\* a flush of a partial second block has returned its parity packets
C34_Witness ==
    /\ f_last.op = "flush"
    /\ Len(f_last.prior.block_buffer) > 0
    /\ f_last.prior.current_block_id = 1
    /\ Len(f_last.out) = ParityShards
    /\ f_last.after.current_block_id = 2

\* a flush right after a completed block has returned nothing
EmptyFlushReached ==
    /\ f_last.op = "flush"
    /\ f_last.prior.block_buffer = <<>>
    /\ f_last.prior.current_block_id > 0
    /\ f_last.out = <<>>
    /\ f_enc = f_last.prior

(***************************************************************************)
(* Connection negotiation.                                                 *)
(***************************************************************************)
Negotiated == g_neg.pc = "done"
\* the network let the QUIC connection come up within the timeout
QuicCameUp == g_neg.net.quic = "ok" /\ g_neg.net.quic_timer = "in_time"
\* the network let the TCP connection come up within the timeout
TcpCameUp ==
    /\ g_neg.net.tcp_timer = "in_time"
    /\ g_neg.net.tcp.video_connect = "ok"
    /\ g_neg.net.tcp.device_name = "ok"
    /\ g_neg.net.tcp.video_metadata = "ok"
QuicWanted == g_neg.neg.prefer_quic /\ g_neg.neg.quic_addr # None
AttemptsOf(kind) == Cardinality({i \in DOMAIN g_neg.attempts : g_neg.attempts[i] = kind})

\* C35: connect returns the Quic variant only if prefer_quic is set, a QUIC
\* address is configured and the QUIC attempt succeeded; in every other case
\* it attempts TCP exactly once and returns the Tcp variant on success; it
\* returns an error only when the TCP attempt fails, and never attempts QUIC
\* after TCP
C35_NegotiationFallback ==
    Negotiated =>
        /\ g_neg.ret = OkQuic =>
              /\ QuicWanted /\ QuicCameUp
              /\ g_neg.attempts = <<"quic">>
        /\ QuicWanted /\ QuicCameUp => g_neg.ret = OkQuic
        /\ ~(QuicWanted /\ QuicCameUp) =>
              /\ AttemptsOf("tcp") = 1
              /\ TcpCameUp => g_neg.ret = OkTcp
              /\ ~TcpCameUp => ~g_neg.ret.ok
        /\ ~QuicWanted => AttemptsOf("quic") = 0
        /\ AttemptsOf("quic") <= 1
        /\ ~g_neg.ret.ok => AttemptsOf("tcp") = 1 /\ ~TcpCameUp
        /\ \A i, j \in DOMAIN g_neg.attempts :
              g_neg.attempts[i] = "tcp" /\ g_neg.attempts[j] = "quic" => j < i

\* QUIC timed out and the one TCP attempt after it succeeded
C35_Witness ==
    /\ Negotiated
    /\ QuicWanted
    /\ g_neg.net.quic_timer = "elapsed"
    /\ g_neg.attempts = <<"quic", "tcp">>
    /\ g_neg.ret = OkTcp

\* the preferred QUIC connection came up and TCP was never tried
QuicChosenReached ==
    Negotiated /\ g_neg.ret = OkQuic /\ g_neg.attempts = <<"quic">>

\* QUIC and TCP both failed
AllAttemptsFailedReached ==
    /\ Negotiated
    /\ g_neg.attempts = <<"quic", "tcp">>
    /\ g_neg.net.quic = "err"
    /\ ~g_neg.ret.ok

\* a QUIC address without the preference goes straight to TCP
QuicNotPreferredReached ==
    /\ Negotiated
    /\ g_neg.neg.quic_addr # None
    /\ ~g_neg.neg.prefer_quic
    /\ QuicCameUp
    /\ g_neg.attempts = <<"tcp">>

(***************************************************************************)
(* sync() and the buffers.                                                 *)
(***************************************************************************)
\* the calls that may change a buffer
BufferChangingCalls ==
    {"add_video_frame", "add_audio_samples", "pop_video_frame",
     "drop_video_frame", "pop_audio_samples", "drop_audio_samples", "reset"}

\* C37: a call to sync() never adds, removes or reorders an entry of the
\* video or audio buffer, whatever action it returns; only add_*, pop_*,
\* drop_* and reset change the buffers
C37_SyncKeepsBuffers ==
    /\ s_last.op = "sync" => s_video = s_last.video /\ s_audio = s_last.audio
    /\ s_video # s_last.video \/ s_audio # s_last.audio
          => s_last.op \in BufferChangingCalls

\* sync() has asked for a video drop and the two buffers are as it found them
C37_Witness ==
    /\ s_last.op = "sync"
    /\ s_ret = "DropVideoFrame"
    /\ Len(s_last.video) >= 2
    /\ s_last.audio # <<>>
    /\ s_video = s_last.video
    /\ s_audio = s_last.audio

\* sync() has asked for an audio skip and the audio buffer is as it found it
SkipLeavesAudioReached ==
    /\ s_last.op = "sync"
    /\ s_ret = "SkipAudioSamples"
    /\ s_audio = s_last.audio
    /\ s_audio # <<>>

(***************************************************************************)
(* The add calls of the sync engine, loop iteration by loop iteration.     *)
(***************************************************************************)
\* the add call made last, in progress or returned
AddCalled == s_last.op \in {"add_video_frame", "add_audio_samples"}
\* what the call has added to its drop/skip counter
AddCounted ==
    IF s_last.op = "add_video_frame"
    THEN s_stats.video_frames_dropped - s_last.stats.video_frames_dropped
    ELSE s_stats.audio_samples_skipped - s_last.stats.audio_samples_skipped
\* the buffer the call found
AddFound == IF s_last.op = "add_video_frame" THEN s_last.video ELSE s_last.audio
\* the capacity the call trims to
AddCapacity ==
    IF s_last.op = "add_video_frame" THEN s_cfg.max_video_buffer
    ELSE s_cfg.max_audio_buffer
\* what an add call does for a capacity: its loop runs at most once per
\* entry the call found, and its counter grows by the entries removed
AddBounded ==
    /\ s_last.steps <= Len(AddFound)
    /\ AddCounted = s_last.removed

\* C40: add_video_frame and add_audio_samples return after finitely many
\* steps for every configured capacity, including capacity 0, and increase
\* the drop/skip counter only by the number of entries actually removed
\* from the buffer
C40_SyncAddTerminates == AddCalled => AddBounded

\* with a capacity of one or more the loop removes an entry in every
\* iteration and the call returns
AddBoundedAboveZero == (AddCalled /\ AddCapacity >= 1) => AddBounded

\* with capacity 0 an add call has never returned and nothing was pushed
NoReturnAtCapacityZero ==
    (AddCalled /\ AddCapacity = 0) => s_last.pc = "trimming" /\ AddFound = <<>>

\* with capacity 0 the loop has counted drops on an empty buffer
CountedOnEmptyBufferReached ==
    /\ AddCalled /\ AddCapacity = 0
    /\ s_last.steps = MaxTrimSteps
    /\ AddCounted = MaxTrimSteps
    /\ s_last.removed = 0

\* with capacity 1 an add on a full buffer has removed one entry and returned
AddOnFullBufferReached ==
    /\ AddCalled /\ AddCapacity = 1
    /\ s_last.pc = "idle"
    /\ s_last.removed = 1
    /\ AddCounted = 1

(***************************************************************************)
(* The loss counter on a reordered datagram stream.                        *)
(***************************************************************************)
ReceivedSeqs == {q_hist.seqs[i] : i \in DOMAIN q_hist.seqs}
LowestSeq == CHOOSE n \in ReceivedSeqs : \A m \in ReceivedSeqs : n <= m
HighestSeq == CHOOSE n \in ReceivedSeqs : \A m \in ReceivedSeqs : n >= m
\* the sequence numbers between the lowest and the highest received that
\* have not been received
NotReceivedBetween == {n \in LowestSeq..HighestSeq : n \notin ReceivedSeqs}
\* the datagrams arrived in ascending order of seq
ArrivedAscending ==
    \A i \in 1..(Len(q_hist.seqs) - 1) : q_hist.seqs[i] < q_hist.seqs[i + 1]

\* C38: for any arrival order of datagrams, reordered and duplicated seq
\* values included, packets_lost never exceeds the number of sequence
\* numbers between the lowest and the highest received seq that have not
\* been received
C38_LossUnderReordering ==
    q_hist.seqs # <<>>
        => get_uint_le(q_stats.packets_lost) <= Cardinality(NotReceivedBetween)

\* a stream that arrives in ascending order from seq 1 is counted exactly
AscendingFromOneCountedExactly ==
    (q_hist.seqs # <<>> /\ ArrivedAscending /\ q_hist.seqs[1] = 1)
        => get_uint_le(q_stats.packets_lost) = Cardinality(NotReceivedBetween)

\* every datagram of the stream has arrived, two of them swapped, and two
\* are counted as lost
ReorderedCountedLostReached ==
    /\ q_hist.seqs = <<1, 3, 2, 4>>
    /\ q_stats.packets_lost = U64(2)

\* a gap crossed twice by duplicated datagrams is counted twice
DuplicateCountedLostReached ==
    /\ q_hist.seqs = <<1, 3, 1, 3>>
    /\ NotReceivedBetween = {2}
    /\ q_stats.packets_lost = U64(2)

\* a gap in an ascending stream is counted once
GapCountedOnceReached ==
    /\ q_hist.seqs = <<1, 2, 4>>
    /\ q_stats.packets_lost = U64(1)

(***************************************************************************)
(* FEC decoder slot safety.                                                *)
(***************************************************************************)
\* the last decoder call was an insertion that panicked on a slot access or
\* on the subtraction that computes the slot
InsertionPanicked == f_last.op \in {"data", "fec"} /\ f_panicked

\* C39: for every sequence of add_data_packet and add_fec_packet calls with
\* arbitrary seq, index, data_count and parity_count values, every
\* shard-slot access is within the block's slot arrays: the parity slot
\* index - data_count is used only when index >= data_count and below the
\* block's parity count, and the data slot seq mod k is within the block's
\* data-slot array even when the block was created by a FEC packet whose
\* data_count differs from the decoder's k
C39_SlotSafety == ~InsertionPanicked

\* add_data_packet panics only on a block that a FEC packet created with
\* fewer data slots than the decoder's k
DataPanicOnlyOnShortBlock ==
    (InsertionPanicked /\ f_last.op = "data") =>
        /\ f_last.prior_counts # <<>>
        /\ f_last.prior_counts[1] < DataShards

\* add_fec_packet panics only on a packet that announces data shards (an
\* index below data_count)
ParityPanicOnlyBelowDataCount ==
    (InsertionPanicked /\ f_last.op = "fec") => f_last.counts[1] > 0

\* a data packet has hit a block with one data slot, created by a FEC packet
DataSlotOutOfBoundsReached ==
    /\ InsertionPanicked
    /\ f_last.op = "data"
    /\ f_last.prior_counts = <<1, 1>>

\* a FEC packet with index 0 and data_count k has made the subtraction
\* underflow
ParityIndexUnderflowReached ==
    /\ InsertionPanicked
    /\ f_last.op = "fec"
    /\ f_last.counts = <<DataShards, ParityShards>>
====
